---- MODULE Spec2Model ----
(***************************************************************************)
(* Model of the data-loading / normalization pipeline of the UIDAI         *)
(* dashboards (load_data_recursive in src/aadhaar_dashboard.py and its     *)
(* variants) and of the pure state-name normalizer it applies.             *)
(*                                                                         *)
(* Strings are sequences of one-character strings so that strip, title     *)
(* and substring tests are computed, not assumed.                          *)
(***************************************************************************)
EXTENDS Integers, Sequences, FiniteSets, TLC

VARIABLES
    raw, once, twice, npc,          \* normalizer harness: input, f(x), f(f(x)), position
    fs,                             \* the directory tree, in os.walk order
    pc,                             \* position inside load_data_recursive
    i,                              \* index of the next file of the walk
    data_store,                     \* key -> list of matched paths
    k,                              \* index of the key being loaded / cleaned
    j,                              \* index of the next path of data_store[key]
    dfs,                            \* frames read so far for the current key
    final_dfs,                      \* key -> table (Unset before it is assigned)
    file_log,                       \* key -> number of frames concatenated
    attempts,                       \* path -> number of read attempts (history)
    exc,                            \* exception propagated to the caller, or "none"
    variant,                        \* which script's loader runs
    a_demo, a_bio,                  \* aggregation harness: the demographic and biometric tables
    a_pc,                           \* which aggregation has run ("ready" before any)
    a_out,                          \* what that aggregation computed
    script,                         \* which dashboard script is run
    tables,                         \* key -> the table the script holds (df_enrol, ...)
    loaded,                         \* key -> the table as the loader returned it (history)
    log_counts,                     \* key -> number of files loaded, as the loader returned it
    rpc,                            \* position inside one run of the dashboard script
    page,                           \* the page chosen in the sidebar
    screen,                         \* what the run has put on the screen
    perr,                           \* exception raised by the run, or "none"
    s_script,                       \* which standalone script loads
    s_fs,                           \* the directory tree it globs
    s_pc,                           \* position inside the standalone loader
    s_k,                            \* index of the category loaded next
    s_tables,                       \* key -> table, for the categories loaded so far
    s_exc,                          \* exception that ended the script, or "none"
    c_disk,                         \* the directory tree as it is on disk now
    c_cache,                        \* the st.cache_data entry of load_data_recursive
    c_scans,                        \* scans of the tree started in this process (history)
    c_raised,                       \* how many of them ended in an exception (history)
    c_got,                          \* what the latest script run received from the call
    c_first,                        \* the first result returned in this process (history)
    c_runs,                         \* script runs so far, over all processes
    c_last,                         \* the latest event: run, change of the tree, restart
    q_script,                       \* the script whose statistics are computed
    q_enrol, q_bio, q_demo,         \* the three category tables it has loaded
    q_pc,                           \* "ready", or the statistic that was computed
    q_out                           \* what the statistic put on the chart, or the exception

normVars == <<raw, once, twice, npc>>
loadVars == <<fs, pc, i, data_store, k, j, dfs, final_dfs, file_log, attempts, exc,
              variant>>
aggVars == <<a_demo, a_bio, a_pc, a_out>>
pageVars == <<script, tables, loaded, log_counts, rpc, page, screen, perr>>
soloVars == <<s_script, s_fs, s_pc, s_k, s_tables, s_exc>>
cacheVars == <<c_disk, c_cache, c_scans, c_raised, c_got, c_first, c_runs, c_last>>
statVars == <<q_script, q_enrol, q_bio, q_demo, q_pc, q_out>>
auxVars == <<aggVars, pageVars, soloVars, cacheVars, statVars>>
vars == <<raw, once, twice, npc, fs, pc, i, data_store, k, j, dfs, final_dfs,
          file_log, attempts, exc, variant, a_demo, a_bio, a_pc, a_out,
          script, tables, loaded, log_counts, rpc, page, screen, perr,
          s_script, s_fs, s_pc, s_k, s_tables, s_exc,
          c_disk, c_cache, c_scans, c_raised, c_got, c_first, c_runs, c_last,
          q_script, q_enrol, q_bio, q_demo, q_pc, q_out>>

\* the harnesses that a specification does not use stay parked
Idle == <<>>
NormIdle == raw = Idle /\ once = Idle /\ twice = Idle /\ npc = "idle"
LoadIdle ==
    /\ fs = <<>> /\ variant = "dashboard" /\ pc = "idle" /\ i = 1
    /\ data_store = <<>> /\ k = 1 /\ j = 1 /\ dfs = <<>> /\ final_dfs = <<>>
    /\ file_log = <<>> /\ attempts = <<>> /\ exc = "none"
AggIdle == a_demo = Idle /\ a_bio = Idle /\ a_pc = "idle" /\ a_out = Idle
PageIdle ==
    /\ script = "idle" /\ tables = Idle /\ loaded = Idle /\ log_counts = Idle
    /\ rpc = "idle" /\ page = "idle" /\ screen = Idle /\ perr = "none"
SoloIdle ==
    /\ s_script = "idle" /\ s_fs = Idle /\ s_pc = "idle" /\ s_k = 1
    /\ s_tables = Idle /\ s_exc = "none"
CacheIdle ==
    /\ c_disk = Idle /\ c_cache = Idle /\ c_scans = 0 /\ c_raised = 0 /\ c_got = Idle
    /\ c_first = Idle /\ c_runs = 0 /\ c_last = "idle"
StatIdle ==
    /\ q_script = "idle" /\ q_enrol = Idle /\ q_bio = Idle /\ q_demo = Idle
    /\ q_pc = "idle" /\ q_out = Idle

---------------------------------------------------------------------------
(* Bounds *)
MaxPad == 1
MaxFiles == 2

---------------------------------------------------------------------------
(* Characters and Python str methods *)
LowerCase == <<"a","b","c","d","e","f","g","h","i","j","k","l","m","n","o","p","q","r","s","t","u","v","w","x","y","z">>
UpperCase == <<"A","B","C","D","E","F","G","H","I","J","K","L","M","N","O","P","Q","R","S","T","U","V","W","X","Y","Z">>
Whitespace == {" ", "\t"}

Range(s) == { s[n] : n \in DOMAIN s }
IndexOf(c, s) == CHOOSE n \in DOMAIN s : s[n] = c

IsLower(c) == c \in Range(LowerCase)
IsUpper(c) == c \in Range(UpperCase)
IsCased(c) == IsLower(c) \/ IsUpper(c)
ToUpper(c) == IF IsLower(c) THEN UpperCase[IndexOf(c, LowerCase)] ELSE c
ToLower(c) == IF IsUpper(c) THEN LowerCase[IndexOf(c, UpperCase)] ELSE c

StrUpper(s) == [n \in DOMAIN s |-> ToUpper(s[n])]
StrLower(s) == [n \in DOMAIN s |-> ToLower(s[n])]

\* str.strip(): drop leading and trailing whitespace
RECURSIVE LStrip(_)
LStrip(s) == IF s # <<>> /\ Head(s) \in Whitespace THEN LStrip(Tail(s)) ELSE s
RECURSIVE RStrip(_)
RStrip(s) == IF s # <<>> /\ s[Len(s)] \in Whitespace
             THEN RStrip(SubSeq(s, 1, Len(s) - 1)) ELSE s
Strip(s) == RStrip(LStrip(s))

\* str.title(): a cased character is upper-cased when the previous character
\* is not cased and lower-cased when it is
RECURSIVE TitleRec(_, _)
TitleRec(s, prevCased) ==
    IF s = <<>> THEN <<>>
    ELSE LET c == Head(s)
         IN  << IF IsCased(c)
                THEN (IF prevCased THEN ToLower(c) ELSE ToUpper(c))
                ELSE c >> \o TitleRec(Tail(s), IsCased(c))
Title(s) == TitleRec(s, FALSE)

---------------------------------------------------------------------------
(* The alias table state_map *)
Westbengal == <<"W","e","s","t","b","e","n","g","a","l">>
West2Bengal == <<"W","e","s","t"," "," ","B","e","n","g","a","l">>
Uttaranchal == <<"U","t","t","a","r","a","n","c","h","a","l">>
Orissa == <<"O","r","i","s","s","a">>
TheDadra == <<"T","h","e"," ","D","a","d","r","a"," ","A","n","d"," ","N","a","g","a","r"," ","H","a","v","e","l","i"," ","A","n","d"," ","D","a","m","a","n"," ","A","n","d"," ","D","i","u">>
WestBengal == <<"W","e","s","t"," ","B","e","n","g","a","l">>
Uttarakhand == <<"U","t","t","a","r","a","k","h","a","n","d">>
Odisha == <<"O","d","i","s","h","a">>
DadraNH == <<"D","a","d","r","a"," ","a","n","d"," ","N","a","g","a","r"," ","H","a","v","e","l","i">>
Goa == <<"G","o","a">>

state_map_keys == {Westbengal, West2Bengal, Uttaranchal, Orissa, TheDadra}
state_map ==
    [key \in state_map_keys |->
        CASE key = Westbengal  -> WestBengal
          [] key = West2Bengal -> WestBengal
          [] key = Uttaranchal -> Uttarakhand
          [] key = Orissa      -> Odisha
          [] key = TheDadra    -> DadraNH]
state_map_values == { state_map[key] : key \in state_map_keys }

\* Series.replace(state_map) on one string cell: whole-value lookup
Replace(x) == IF x \in state_map_keys THEN state_map[x] ELSE x

\* df['state'].replace(state_map).str.strip().str.title() on one string cell
NormalizeState(x) == Title(Strip(Replace(x)))

---------------------------------------------------------------------------
(* Normalizer harness: raw state strings drawn from a bounded set *)
BaseNames == state_map_keys \cup state_map_values \cup {Goa}
Spaces(n) == [m \in 1..n |-> " "]
Variant(b, v) == CASE v = "asis"  -> b
                   [] v = "lower" -> StrLower(b)
                   [] v = "upper" -> StrUpper(b)
RawStates == { Spaces(l) \o Variant(b, v) \o Spaces(r) :
                 b \in BaseNames, v \in {"asis", "lower", "upper"},
                 l \in 0..MaxPad, r \in 0..MaxPad }

---------------------------------------------------------------------------
(* Cells and tables (pandas DataFrame) *)
Num(n) == [t |-> "num", n |-> n, s |-> <<>>]
Str(x) == [t |-> "str", n |-> 0, s |-> x]
NaN == [t |-> "nan", n |-> 0, s |-> <<>>]
NaT == [t |-> "nat", n |-> 0, s |-> <<>>]
Date(d, m, y) == [t |-> "date", n |-> y * 10000 + m * 100 + d, s |-> <<>>]

\* pd.DataFrame(): no columns, no rows
EmptyDF == [cols |-> <<>>, rows |-> <<>>]
\* DataFrame.empty: some axis has length 0
IsEmpty(df) == Len(df.cols) = 0 \/ Len(df.rows) = 0
HasCol(df, c) == c \in Range(df.cols)

\* pd.to_datetime(text, format='%d-%m-%Y', errors='coerce') on one string
Digits == <<"0","1","2","3","4","5","6","7","8","9">>
IsDigit(c) == c \in Range(Digits)
DigitVal(c) == IndexOf(c, Digits) - 1
RECURSIVE NumVal(_)
NumVal(s) == IF s = <<>> THEN 0
             ELSE NumVal(SubSeq(s, 1, Len(s) - 1)) * 10 + DigitVal(s[Len(s)])
AllDigits(s) == \A n \in DOMAIN s : IsDigit(s[n])
IsLeap(y) == y % 4 = 0 /\ (y % 100 # 0 \/ y % 400 = 0)
DaysInMonth(m, y) == IF m = 2 THEN (IF IsLeap(y) THEN 29 ELSE 28)
                     ELSE IF m \in {4, 6, 9, 11} THEN 30 ELSE 31
\* %d: one or two digits (or a space and a digit), %m: one or two digits,
\* %Y: exactly four digits; the whole text must match
DayField(f) == IF Len(f) = 2 /\ f[1] = " " THEN <<f[2]>> ELSE f
ParseDate(text) ==
    LET dashes == { n \in DOMAIN text : text[n] = "-" }
    IN  IF Cardinality(dashes) # 2 THEN NaT
        ELSE LET p1 == CHOOSE n \in dashes : \A m \in dashes : n <= m
                 p2 == CHOOSE n \in dashes : \A m \in dashes : m <= n
                 fd == DayField(SubSeq(text, 1, p1 - 1))
                 fm == SubSeq(text, p1 + 1, p2 - 1)
                 fy == SubSeq(text, p2 + 1, Len(text))
             IN  IF /\ Len(fd) \in 1..2 /\ AllDigits(fd)
                    /\ Len(fm) \in 1..2 /\ AllDigits(fm)
                    /\ Len(fy) = 4 /\ AllDigits(fy)
                    /\ NumVal(fy) >= 1
                    /\ NumVal(fm) \in 1..12
                    /\ NumVal(fd) \in 1..DaysInMonth(NumVal(fm), NumVal(fy))
                 THEN Date(NumVal(fd), NumVal(fm), NumVal(fy))
                 ELSE NaT
\* one cell of the date column: a missing value stays missing (NaT)
ToDatetime(cell) == IF cell.t = "str" THEN ParseDate(cell.s) ELSE NaT

\* df['date'] = pd.to_datetime(df['date'], ...): the column is replaced in place
ParseDateColumn(df) ==
    [df EXCEPT !.rows = [n \in DOMAIN df.rows |->
                           [df.rows[n] EXCEPT !["date"] = ToDatetime(@)]]]

\* pd.concat(dfs, ignore_index=True): columns in order of first appearance,
\* rows frame after frame, a cell of a column the frame lacks is NaN
RECURSIVE ConcatCols(_)
ConcatCols(frames) ==
    IF frames = <<>> THEN <<>>
    ELSE LET before == ConcatCols(SubSeq(frames, 1, Len(frames) - 1))
             last == frames[Len(frames)].cols
         IN  before \o SelectSeq(last, LAMBDA c : c \notin Range(before))
Widen(row, cols) == [c \in Range(cols) |-> IF c \in DOMAIN row THEN row[c] ELSE NaN]
RECURSIVE ConcatRows(_, _)
ConcatRows(frames, cols) ==
    IF frames = <<>> THEN <<>>
    ELSE LET f == Head(frames)
         IN  [n \in DOMAIN f.rows |-> Widen(f.rows[n], cols)]
             \o ConcatRows(Tail(frames), cols)
\* mutant: the concatenation is followed by drop_duplicates()
RECURSIVE DropDuplicates(_)
DropDuplicates(rows) ==
    IF rows = <<>> THEN <<>>
    ELSE LET init == DropDuplicates(SubSeq(rows, 1, Len(rows) - 1))
             last == rows[Len(rows)]
         IN  IF last \in Range(init) THEN init ELSE Append(init, last)
ConcatDropDuplicates(frames) ==
    LET cols == ConcatCols(frames)
    IN  [cols |-> cols, rows |-> DropDuplicates(ConcatRows(frames, cols))]

Concat(frames) ==
    LET cols == ConcatCols(frames)
    IN  [cols |-> cols, rows |-> ConcatRows(frames, cols)]

\* dtype of a column: datetime64 for the parsed date column; a column whose
\* cells are all numbers or missing is float64/int64; a column with a string,
\* or a column of a frame without rows, is object
IsNumericCol(df, c) ==
    /\ c # "date"
    /\ Len(df.rows) > 0
    /\ \A n \in DOMAIN df.rows : df.rows[n][c].t \in {"num", "nan"}
\* df.select_dtypes(include=['number']).columns
NumCols(df) == { c \in Range(df.cols) : IsNumericCol(df, c) }
\* Series.str is refused (AttributeError) on a column that is not object dtype
StrAccessorRaises(df) == IsNumericCol(df, "state")

\* df['state'].replace(state_map).str.strip().str.title(): missing stays missing
NormalizeCell(cell) == IF cell.t = "str" THEN Str(NormalizeState(cell.s)) ELSE cell
NormalizeStateColumn(df) ==
    [df EXCEPT !.rows = [n \in DOMAIN df.rows |->
                           [df.rows[n] EXCEPT !["state"] = NormalizeCell(@)]]]
\* df[num_cols] = df[num_cols].fillna(0)
FillCell(cell) == IF cell.t = "nan" THEN Num(0) ELSE cell
FillNumeric(df) ==
    LET num_cols == NumCols(df)
    IN  [df EXCEPT !.rows = [n \in DOMAIN df.rows |->
            [c \in DOMAIN df.rows[n] |->
                IF c \in num_cols THEN FillCell(df.rows[n][c]) ELSE df.rows[n][c]]]]

---------------------------------------------------------------------------
(* File names, keywords and discovery *)
KwEnrol == <<"a","p","i","_","d","a","t","a","_","a","a","d","h","a","r","_","e","n","r","o","l","m","e","n","t">>
KwBio == <<"a","p","i","_","d","a","t","a","_","a","a","d","h","a","r","_","b","i","o","m","e","t","r","i","c">>
KwDemo == <<"a","p","i","_","d","a","t","a","_","a","a","d","h","a","r","_","d","e","m","o","g","r","a","p","h","i","c">>
CsvExt == <<".","c","s","v">>
Underscore == <<"_">>

EndsWith(s, suf) == Len(s) >= Len(suf) /\ SubSeq(s, Len(s) - Len(suf) + 1, Len(s)) = suf
StartsWith(s, pre) == Len(s) >= Len(pre) /\ SubSeq(s, 1, Len(pre)) = pre
\* Python's `sub in s`
Contains(s, sub) == \E n \in 1..(Len(s) - Len(sub) + 1) : SubSeq(s, n, n + Len(sub) - 1) = sub

Keys == {"enrol", "bio", "demo"}
\* insertion order of the data_store / final_dfs dictionaries
KeyOrder == <<"enrol", "bio", "demo">>
Keyword(key) == CASE key = "enrol" -> KwEnrol [] key = "bio" -> KwBio [] key = "demo" -> KwDemo

\* mutant: the extension test is left out
CategoryAnyExtension(file) ==
    IF Contains(file, KwEnrol) THEN "enrol"
    ELSE IF Contains(file, KwBio) THEN "bio"
    ELSE IF Contains(file, KwDemo) THEN "demo"
    ELSE "none"

\* the if / elif chain of the walk: the key a file name is filed under, or "none"
Category(file) ==
    IF ~EndsWith(file, CsvExt) THEN "none"
    ELSE IF Contains(file, KwEnrol) THEN "enrol"
    ELSE IF Contains(file, KwBio) THEN "bio"
    ELSE IF Contains(file, KwDemo) THEN "demo"
    ELSE "none"

\* the glob patterns of load_and_process_data:
\* 'UIDAI_Dataset/<keyword>/<keyword>_*.csv', relative to the working directory
RootDir == "."
GlobDir(key) == CASE key = "enrol" -> "UIDAI_Dataset/api_data_aadhar_enrolment"
                  [] key = "bio"   -> "UIDAI_Dataset/api_data_aadhar_biometric"
                  [] key = "demo"  -> "UIDAI_Dataset/api_data_aadhar_demographic"
GlobMatch(path, key) ==
    /\ path.dir = GlobDir(key)
    /\ Len(path.name) >= Len(Keyword(key)) + 1 + Len(CsvExt)
    /\ StartsWith(path.name, Keyword(key) \o Underscore)
    /\ EndsWith(path.name, CsvExt)

---------------------------------------------------------------------------
(* The bounded universe of directory trees *)
NameEnrol0 == KwEnrol \o <<"_","0",".","c","s","v">>
NameEnrol1 == KwEnrol \o <<"_","1",".","c","s","v">>
NameBio0 == KwBio \o <<"_","0",".","c","s","v">>
NameDemo0 == KwDemo \o <<"_","0",".","c","s","v">>
NameDouble == KwEnrol \o Underscore \o KwBio \o CsvExt
NameBackup == KwEnrol \o <<".","c","s","v",".","b","a","k">>
NameNotes == <<"n","o","t","e","s",".","c","s","v">>

Path(dir, name) == [dir |-> dir, name |-> name]
PathEnrol0 == Path(GlobDir("enrol"), NameEnrol0)
PathEnrol1 == Path(RootDir, NameEnrol1)
PathBio0 == Path(GlobDir("bio"), NameBio0)
PathDemo0 == Path(GlobDir("demo"), NameDemo0)
PathDouble == Path(GlobDir("enrol"), NameDouble)
PathBackup == Path(RootDir, NameBackup)
PathNotes == Path(RootDir, NameNotes)
DataPaths == {PathEnrol0, PathEnrol1, PathBio0, PathDemo0, PathDouble}
OtherPaths == {PathBackup, PathNotes}

GoodDate1 == <<"0","1","-","0","3","-","2","0","2","5">>
GoodDate2 == <<"1","5","-","0","8","-","2","0","2","5">>
BadFormat == <<"2","0","2","5","-","0","3","-","0","1">>
BadCalendar == <<"3","1","-","0","2","-","2","0","2","5">>
PaddedLower == <<" ","w","e","s","t"," ","b","e","n","g","a","l"," ">>

RowA1 == [date |-> Str(GoodDate1), state |-> Str(Orissa), age_0_5 |-> Num(5)]
RowA2 == [date |-> Str(BadFormat), state |-> Str(PaddedLower), age_0_5 |-> NaN]
RowNoDate == [state |-> Str(Goa), age_0_5 |-> Num(3)]
RowNoState == [date |-> Str(BadCalendar), age_0_5 |-> NaN]
RowOther == [date |-> Str(GoodDate2), state |-> NaN, age_5_17 |-> Num(2)]

\* what pd.read_csv(path) does: raise (ok = FALSE) or return a frame
Unreadable == [ok |-> FALSE, df |-> EmptyDF]
FrameA == [ok |-> TRUE, df |-> [cols |-> <<"date", "state", "age_0_5">>,
                                rows |-> <<RowA1, RowA1, RowA2>>]]
FrameHeaderOnly == [ok |-> TRUE, df |-> [cols |-> <<"date", "state", "age_0_5">>,
                                         rows |-> <<>>]]
FrameNoDate == [ok |-> TRUE, df |-> [cols |-> <<"state", "age_0_5">>,
                                     rows |-> <<RowNoDate>>]]
FrameNoState == [ok |-> TRUE, df |-> [cols |-> <<"date", "age_0_5">>,
                                      rows |-> <<RowNoState>>]]
FrameOther == [ok |-> TRUE, df |-> [cols |-> <<"date", "state", "age_5_17">>,
                                    rows |-> <<RowOther>>]]
Contents == {Unreadable, FrameA, FrameHeaderOnly, FrameNoDate, FrameNoState, FrameOther}

Entries == { [path |-> p, content |-> c] : p \in DataPaths, c \in Contents }
           \cup { [path |-> p, content |-> FrameA] : p \in OtherPaths }

\* os.walk is top-down: the files of the root come first, the files of one
\* directory are contiguous, and a path occurs once
IsWalk(w) ==
    /\ \A a, b \in DOMAIN w : a # b => w[a].path # w[b].path
    /\ \A a, b \in DOMAIN w : (a < b /\ w[b].path.dir = RootDir) => w[a].path.dir = RootDir
    /\ \A a, b, c \in DOMAIN w :
          (a < b /\ b < c /\ w[a].path.dir = w[c].path.dir) => w[b].path.dir = w[a].path.dir
Walks == { w \in UNION { [1..n -> Entries] : n \in 0..MaxFiles } : IsWalk(w) }

Variants == {"dashboard", "manus", "analysis"}

---------------------------------------------------------------------------
(* load_data_recursive / load_and_process_data *)
ContentOf(path) == (CHOOSE e \in Range(fs) : e.path = path).content
CurKey == KeyOrder[k]

\* mutant: three independent `if` tests instead of the if / elif chain
FiledEveryKeyword(store, path) ==
    [key \in Keys |->
        IF EndsWith(path.name, CsvExt) /\ Contains(path.name, Keyword(key))
        THEN Append(store[key], path) ELSE store[key]]

\* data_store[...].append(file_path) under the if / elif chain
Filed(store, path) ==
    LET cat == Category(path.name)
    IN  IF cat = "none" THEN store ELSE [store EXCEPT ![cat] = Append(@, path)]

\* glob.glob(pattern) for the three patterns, in directory-listing order
Globbed(walk) ==
    [key \in Keys |->
        LET hits == SelectSeq(walk, LAMBDA e : GlobMatch(e.path, key))
        IN  [n \in DOMAIN hits |-> hits[n].path]]

\* the try block: pd.read_csv(p) raises, or df['date'] raises KeyError
ReadSucceeds(c) == c.ok /\ HasCol(c.df, "date")
\* mutant: errors='raise', so a file with an unparseable date is skipped whole
LoadedFramesStrictDates(frames, c) ==
    IF ReadSucceeds(c) /\ \A n \in DOMAIN c.df.rows : ToDatetime(c.df.rows[n].date) # NaT
    THEN Append(frames, ParseDateColumn(c.df)) ELSE frames
\* mutant: the except branch empties the list of frames
LoadedFramesResetOnError(frames, c) ==
    IF ReadSucceeds(c) THEN Append(frames, ParseDateColumn(c.df)) ELSE <<>>
\* mutant: a frame is inserted at the front of the list
LoadedFramesPrepend(frames, c) ==
    IF ReadSucceeds(c) THEN <<ParseDateColumn(c.df)>> \o frames ELSE frames

\* mutant: a table without a date column is appended as it was read
LoadedFramesKeepUndated(frames, c) ==
    IF ReadSucceeds(c) THEN Append(frames, ParseDateColumn(c.df))
    ELSE IF c.ok THEN Append(frames, c.df) ELSE frames

\* try: ... dfs.append(df)   except: continue
LoadedFrames(frames, c) ==
    IF ReadSucceeds(c) THEN Append(frames, ParseDateColumn(c.df)) ELSE frames
\* pd.concat(dfs, ignore_index=True) if dfs else pd.DataFrame()
Concatenated(frames) == IF frames # <<>> THEN Concat(frames) ELSE EmptyDF

\* mutant: the state column is normalized without testing the table first
NormalizeGuardAlways(v, df) == TRUE

\* the guards of the cleaning loop, per script
NormalizeGuard(v, df) ==
    CASE v = "dashboard" -> ~IsEmpty(df) /\ HasCol(df, "state")
      [] v = "manus"     -> ~IsEmpty(df) /\ HasCol(df, "state")
      [] v = "analysis"  -> HasCol(df, "state")
FillGuard(v, df) ==
    CASE v = "dashboard" -> ~IsEmpty(df) /\ HasCol(df, "state")
      [] v = "manus"     -> ~IsEmpty(df)
      [] v = "analysis"  -> HasCol(df, "state")
\* the exception the cleaning of one table raises, or "none"
CleanError(v, df) ==
    IF ~NormalizeGuard(v, df) THEN "none"
    ELSE IF ~HasCol(df, "state") THEN "KeyError"
    ELSE IF StrAccessorRaises(df) THEN "AttributeError"
    ELSE "none"
CleanTable(v, df) ==
    LET named == IF NormalizeGuard(v, df) THEN NormalizeStateColumn(df) ELSE df
    IN  IF FillGuard(v, df) THEN FillNumeric(named) ELSE named

Init ==
    /\ NormIdle /\ AggIdle /\ PageIdle /\ SoloIdle /\ CacheIdle /\ StatIdle
    /\ fs \in Walks
    /\ variant \in Variants
    /\ pc = "scan"
    /\ i = 1
    /\ data_store = [key \in Keys |-> <<>>]
    /\ k = 1
    /\ j = 1
    /\ dfs = <<>>
    /\ final_dfs = <<>>
    /\ file_log = [key \in Keys |-> 0]
    /\ attempts = [p \in { fs[n].path : n \in DOMAIN fs } |-> 0]
    /\ exc = "none"

\* one iteration of `for file in files` of the os.walk loop
WalkFile ==
    /\ pc = "scan" /\ variant # "analysis" /\ i <= Len(fs)
    /\ data_store' = Filed(data_store, fs[i].path)
    /\ i' = i + 1
    /\ UNCHANGED <<normVars, auxVars, fs, pc, k, j, dfs, final_dfs, file_log, attempts, exc, variant>>

WalkDone ==
    /\ pc = "scan" /\ variant # "analysis" /\ i > Len(fs)
    /\ pc' = "load"
    /\ UNCHANGED <<normVars, auxVars, fs, i, data_store, k, j, dfs, final_dfs, file_log, attempts,
                   exc, variant>>

\* load_files(pattern): the three glob calls
GlobAll ==
    /\ pc = "scan" /\ variant = "analysis"
    /\ data_store' = Globbed(fs)
    /\ pc' = "load"
    /\ UNCHANGED <<normVars, auxVars, fs, i, k, j, dfs, final_dfs, file_log, attempts, exc, variant>>

\* `if not paths: final_dfs[key] = pd.DataFrame(); continue`
SkipEmptyKey ==
    /\ pc = "load" /\ variant = "dashboard" /\ data_store[CurKey] = <<>>
    /\ final_dfs' = final_dfs @@ (CurKey :> EmptyDF)
    /\ IF k < Len(KeyOrder) THEN k' = k + 1 /\ pc' = pc ELSE k' = 1 /\ pc' = "clean"
    /\ UNCHANGED <<normVars, auxVars, fs, i, data_store, j, dfs, file_log, attempts, exc, variant>>

\* one iteration of `for p in paths`
ReadFile ==
    /\ pc = "load" /\ j <= Len(data_store[CurKey])
    /\ LET p == data_store[CurKey][j]
       IN  /\ attempts' = [attempts EXCEPT ![p] = @ + 1]
           /\ dfs' = LoadedFrames(dfs, ContentOf(p))
    /\ j' = j + 1
    /\ UNCHANGED <<normVars, auxVars, fs, pc, i, data_store, k, final_dfs, file_log, exc, variant>>

\* after the loop: concatenate, count, go to the next key
FinishKey ==
    /\ pc = "load" /\ j > Len(data_store[CurKey])
    /\ ~(variant = "dashboard" /\ data_store[CurKey] = <<>>)
    /\ final_dfs' = final_dfs @@ (CurKey :> Concatenated(dfs))
    /\ file_log' = IF dfs # <<>> /\ variant \in {"dashboard", "manus"}
                   THEN [file_log EXCEPT ![CurKey] = Len(dfs)] ELSE file_log
    /\ dfs' = <<>> /\ j' = 1
    /\ IF k < Len(KeyOrder) THEN k' = k + 1 /\ pc' = pc ELSE k' = 1 /\ pc' = "clean"
    /\ UNCHANGED <<normVars, auxVars, fs, i, data_store, attempts, exc, variant>>

\* one iteration of the cleaning loop that completes
CleanKey ==
    /\ pc = "clean"
    /\ CleanError(variant, final_dfs[CurKey]) = "none"
    /\ final_dfs' = [final_dfs EXCEPT ![CurKey] = CleanTable(variant, @)]
    /\ IF k < Len(KeyOrder) THEN k' = k + 1 /\ pc' = pc ELSE k' = k /\ pc' = "done"
    /\ UNCHANGED <<normVars, auxVars, fs, i, data_store, j, dfs, file_log, attempts, exc, variant>>

\* one iteration of the cleaning loop that raises: the loader ends there
CleanRaise ==
    /\ pc = "clean"
    /\ CleanError(variant, final_dfs[CurKey]) # "none"
    /\ exc' = CleanError(variant, final_dfs[CurKey])
    /\ pc' = "raised"
    /\ UNCHANGED <<normVars, auxVars, fs, i, data_store, k, j, dfs, final_dfs, file_log, attempts,
                   variant>>

Next == WalkFile \/ WalkDone \/ GlobAll \/ SkipEmptyKey \/ ReadFile \/ FinishKey
        \/ CleanKey \/ CleanRaise

Spec == Init /\ [][Next]_vars

---------------------------------------------------------------------------
(* The normalizer applied to a raw state string, then to its own output *)
NormInit ==
    /\ raw \in RawStates /\ once = Idle /\ twice = Idle /\ npc = "raw"
    /\ AggIdle /\ PageIdle /\ SoloIdle /\ CacheIdle /\ StatIdle
    /\ fs = <<>> /\ variant = "dashboard" /\ pc = "idle" /\ i = 1
    /\ data_store = [key \in Keys |-> <<>>]
    /\ k = 1 /\ j = 1 /\ dfs = <<>> /\ final_dfs = <<>>
    /\ file_log = [key \in Keys |-> 0]
    /\ attempts = <<>>
    /\ exc = "none"

NormalizeOnce ==
    /\ npc = "raw"
    /\ once' = NormalizeState(raw)
    /\ npc' = "once"
    /\ UNCHANGED <<raw, twice, loadVars, auxVars>>

NormalizeTwice ==
    /\ npc = "once"
    /\ twice' = NormalizeState(once)
    /\ npc' = "twice"
    /\ UNCHANGED <<raw, once, loadVars, auxVars>>

NormNext == NormalizeOnce \/ NormalizeTwice

SpecNorm == NormInit /\ [][NormNext]_vars

---------------------------------------------------------------------------
(* Properties of the normalizer (checked under SpecNorm) *)

\* C1: normalization is idempotent: normalizing the normalizer's own output
\* gives the output back, for every raw state string.
C1_Idempotent == npc = "twice" => twice = once

\* C2: every key of state_map ends up as exactly the canonical value the
\* table gives for it.
C2_AliasToCanonical ==
    (npc # "raw" /\ raw \in state_map_keys) => once = state_map[raw]

\* C3: every canonical name (value of state_map) is left unchanged,
\* character for character.
C3_CanonicalNoOp ==
    (npc # "raw" /\ raw \in state_map_values) => once = raw

---------------------------------------------------------------------------
(* Properties of the loader (checked under Spec) *)

\* the files of a list whose try block completes, and their rows as read
Loads(c) == c.ok /\ "date" \in Range(c.df.cols)
Loaded(paths) == SelectSeq(paths, LAMBDA p : Loads(ContentOf(p)))
RECURSIVE SumRows(_)
SumRows(paths) ==
    IF paths = <<>> THEN 0
    ELSE Len(ContentOf(Head(paths)).df.rows) + SumRows(Tail(paths))
RECURSIVE SourceRows(_)
SourceRows(paths) ==
    IF paths = <<>> THEN <<>>
    ELSE ContentOf(Head(paths)).df.rows \o SourceRows(Tail(paths))
Assigned == DOMAIN final_dfs

\* C4: when every matched file of a category is readable and has a date
\* column, the category table has as many rows as the files have together;
\* duplicates within or across files are kept, by loading and by normalization.
C4_RowCountIsSum ==
    \A key \in Assigned :
        (\A n \in DOMAIN data_store[key] : Loads(ContentOf(data_store[key][n])))
            => Len(final_dfs[key].rows) = SumRows(data_store[key])
C4_Witness ==
    /\ pc = "done"
    /\ \E key \in Keys :
          /\ Len(data_store[key]) = 2
          /\ ContentOf(data_store[key][1]) = FrameA
          /\ ContentOf(data_store[key][2]) = FrameA
          /\ Len(final_dfs[key].rows) = 6

\* C5: a row whose date text does not match day-month-year raises nothing, is
\* kept, and has the null date; the other rows keep their parsed dates.
C5_BadDateIsNull ==
    \A key \in Assigned :
        LET src == SourceRows(Loaded(data_store[key]))
            tbl == final_dfs[key]
        IN  /\ Len(tbl.rows) = Len(src)
            /\ \A n \in DOMAIN src :
                  /\ src[n].date = Str(BadFormat) => tbl.rows[n].date = NaT
                  /\ src[n].date = Str(BadCalendar) => tbl.rows[n].date = NaT
                  /\ src[n].date = Str(GoodDate1) => tbl.rows[n].date = Date(1, 3, 2025)
                  /\ src[n].date = Str(GoodDate2) => tbl.rows[n].date = Date(15, 8, 2025)
C5_Witness ==
    /\ pc = "done"
    /\ \E key \in Keys :
          /\ Len(data_store[key]) >= 1
          /\ ContentOf(data_store[key][1]) = FrameA
          /\ final_dfs[key].rows[3].date = NaT
          /\ final_dfs[key].rows[1].date = Date(1, 3, 2025)

\* C6: in every script, a category with no matched file gets the empty table,
\* and cleaning never raises on that category, whatever the others hold.
C6_EmptyCategory ==
    /\ \A key \in Assigned : data_store[key] = <<>> => final_dfs[key] = EmptyDF
    /\ pc = "raised" => data_store[CurKey] # <<>>
C6_Witness ==
    /\ pc = "done"
    /\ \E key \in Keys : data_store[key] = <<>> /\ final_dfs[key] = EmptyDF
    /\ \E key \in Keys : ~IsEmpty(final_dfs[key])

\* C7: every matched file is attempted exactly once, a failing read never
\* reaches the caller, the files after it are still read, the table is made of
\* exactly the files that read, and it is empty exactly when none read or all
\* that read have no rows.
Matched == UNION { Range(data_store[key]) : key \in Keys }
C7_SkipAndContinue ==
    /\ pc \in {"scan", "load"} => exc = "none"
    /\ \A p \in DOMAIN attempts : attempts[p] <= 1 /\ (p \notin Matched => attempts[p] = 0)
    /\ Matched \subseteq DOMAIN attempts
    /\ pc \in {"clean", "done", "raised"} => \A p \in Matched : attempts[p] = 1
    /\ \A key \in Assigned :
          LET read == Loaded(data_store[key])
          IN  /\ Len(final_dfs[key].rows) = SumRows(read)
              /\ Range(final_dfs[key].cols)
                   = UNION { Range(ContentOf(read[n]).df.cols) : n \in DOMAIN read }
              /\ variant \in {"dashboard", "manus"} => file_log[key] = Len(read)
              /\ IsEmpty(final_dfs[key]) <=> (read = <<>> \/ SumRows(read) = 0)
C7_Witness ==
    /\ pc = "done"
    /\ \E key \in Keys :
          /\ Len(data_store[key]) = 2
          /\ ~ContentOf(data_store[key][1]).ok
          /\ ContentOf(data_store[key][2]) = FrameA
          /\ Len(final_dfs[key].rows) = 3

\* C8 (as claimed): the list of a keyword holds exactly the files under the
\* root whose name contains the keyword and ends with .csv.
Walked == { fs[n].path : n \in 1..(i - 1) }
C8_ExactlyKeywordFiles ==
    (variant # "analysis" /\ pc # "scan") =>
        \A key \in Keys :
            Range(data_store[key])
              = { p \in Walked : Contains(p.name, Keyword(key)) /\ EndsWith(p.name, CsvExt) }
\* C8 (amended): ... and contains no keyword that comes earlier in the order
\* enrolment, biometric, demographic.
EarlierKeys(key) == CASE key = "enrol" -> {}
                      [] key = "bio"   -> {"enrol"}
                      [] key = "demo"  -> {"enrol", "bio"}
C8_FirstKeywordFiles ==
    (variant # "analysis" /\ pc # "scan") =>
        \A key \in Keys :
            Range(data_store[key])
              = { p \in Walked :
                    /\ Contains(p.name, Keyword(key))
                    /\ EndsWith(p.name, CsvExt)
                    /\ \A e \in EarlierKeys(key) : ~Contains(p.name, Keyword(e)) }
C8_Witness ==
    /\ pc = "load" /\ variant # "analysis"
    /\ PathDouble \in Range(data_store["enrol"])
    /\ PathDouble \notin Range(data_store["bio"])
    /\ \E n \in DOMAIN fs : fs[n].path \in OtherPaths

\* C9: the table of a category is the loaded files in discovery order, each
\* file's rows in file order; a skipped file does not disturb the others.
CameFrom(row, src) ==
    /\ row.date = ToDatetime(src.date)
    /\ \A c \in DOMAIN src \ {"date"} :
          row[c] \in {src[c], NormalizeCell(src[c]), FillCell(src[c])}
    /\ \A c \in DOMAIN row \ DOMAIN src : row[c] \in {NaN, Num(0)}
C9_FileThenRowOrder ==
    \A key \in Assigned :
        LET src == SourceRows(Loaded(data_store[key]))
        IN  /\ Len(final_dfs[key].rows) = Len(src)
            /\ \A n \in DOMAIN src : CameFrom(final_dfs[key].rows[n], src[n])
C9_Witness ==
    /\ pc = "done"
    /\ \E key \in Keys :
          /\ Len(data_store[key]) = 2
          /\ ContentOf(data_store[key][1]) = FrameOther
          /\ ContentOf(data_store[key][2]) = FrameA
          /\ final_dfs[key].rows[1].date = Date(15, 8, 2025)
          /\ final_dfs[key].rows[4].date = NaT

\* C10: in every non-empty table returned by load_data_recursive of
\* src/aadhaar_dashboard.py no numeric column holds a missing value, with or
\* without a state column.
C10_NoMissingNumeric ==
    (pc = "done" /\ variant = "dashboard") =>
        \A key \in Keys :
            ~IsEmpty(final_dfs[key]) =>
                \A c \in NumCols(final_dfs[key]) :
                    \A n \in DOMAIN final_dfs[key].rows : final_dfs[key].rows[n][c] # NaN

---------------------------------------------------------------------------
(* Aggregations of the pages and of the analysis script, on loaded tables *)

RECURSIVE SumOver(_, _)
\* sum of f[x] over the elements x of S
SumOver(f, S) ==
    IF S = {} THEN 0
    ELSE LET x == CHOOSE y \in S : TRUE IN f[x] + SumOver(f, S \ {x})
RECURSIVE SumSeq(_)
SumSeq(q) == IF q = <<>> THEN 0 ELSE Head(q) + SumSeq(Tail(q))

\* sum() skips missing cells
CellNum(cell) == IF cell.t = "num" THEN cell.n ELSE 0
\* .sum(axis=1) of one row restricted to cols
RowTotal(row, cols) == SumOver([c \in cols |-> CellNum(row[c])], cols)

NotNull(cell) == cell.t \notin {"nan", "nat"}
\* the mutant keeps the rows whose key is missing as a group of their own
GroupKeysKeepNull(df, by) == { df.rows[n][by] : n \in DOMAIN df.rows }
\* groupby(by): one group per distinct key, rows with a missing key dropped
GroupKeys(df, by) ==
    { df.rows[n][by] : n \in { m \in DOMAIN df.rows : NotNull(df.rows[m][by]) } }
GroupRows(df, by, key) == SelectSeq(df.rows, LAMBDA r : r[by] = key)
\* groupby(by)[cols].sum().sum(axis=1)
GroupTotals(df, by, cols) ==
    [key \in GroupKeys(df, by) |->
        SumSeq([n \in DOMAIN GroupRows(df, by, key) |->
                    RowTotal(GroupRows(df, by, key)[n], cols)])]
\* groupby(by).sum(numeric_only=True).sum(axis=1)
GroupTotalsNumeric(df, by) == GroupTotals(df, by, NumCols(df) \ {by})

\* float division, kept exact as a fraction; a zero den is a division by zero
Divide(a, b) == [num |-> a, den |-> b]
\* the mutant divides by the biometric count itself
DigitalRatioNoShift(demo, bio) == Divide(demo, bio)
\* Demo / (Bio + 1)
DigitalRatio(demo, bio) == Divide(demo, bio + 1)

SeriesCell(series, g) == IF g \in DOMAIN series THEN Num(series[g]) ELSE NaN
\* pd.DataFrame({'Demo': demo_count, 'Bio': bio_count}).fillna(0) and the
\* Ratio column: the index is the union of the two indexes
RatioFrame(demo_count, bio_count) ==
    [g \in DOMAIN demo_count \cup DOMAIN bio_count |->
        LET d == FillCell(SeriesCell(demo_count, g)).n
            b == FillCell(SeriesCell(bio_count, g)).n
        IN  [Demo |-> d, Bio |-> b, Ratio |-> DigitalRatio(d, b)]]
\* ratio_df[ratio_df['Bio'] > 100]
NoiseFloor == 100
AboveNoise(frame) == { g \in DOMAIN frame : frame[g].Bio > NoiseFloor }

\* demo_pin.join(bio_pin).fillna(0): a left join, the index is demo_pin's;
\* Total_Vol > 100 is applied before Digital_Ratio is computed
MinTotalVol == 100
PinFrame(demo_pin, bio_pin) ==
    LET joined == [g \in DOMAIN demo_pin |->
                     [Demo |-> demo_pin[g], Bio |-> FillCell(SeriesCell(bio_pin, g)).n]]
        valid == { g \in DOMAIN joined : joined[g].Demo + joined[g].Bio > MinTotalVol }
    IN  [g \in valid |-> [Demo |-> joined[g].Demo, Bio |-> joined[g].Bio,
                          Ratio |-> DigitalRatio(joined[g].Demo, joined[g].Bio)]]

\* Series.dt.day_name(): the weekday of a calendar date, missing for NaT
days == << <<"M","o","n","d","a","y">>, <<"T","u","e","s","d","a","y">>,
           <<"W","e","d","n","e","s","d","a","y">>, <<"T","h","u","r","s","d","a","y">>,
           <<"F","r","i","d","a","y">>, <<"S","a","t","u","r","d","a","y">>,
           <<"S","u","n","d","a","y">> >>
MonthShift == <<0, 3, 2, 5, 0, 3, 5, 1, 4, 6, 2, 4>>
\* 0 = Monday ... 6 = Sunday
Weekday(cell) ==
    LET d == cell.n % 100
        m == (cell.n \div 100) % 100
        y == IF m < 3 THEN (cell.n \div 10000) - 1 ELSE cell.n \div 10000
        sunday0 == (y + (y \div 4) - (y \div 100) + (y \div 400) + MonthShift[m] + d) % 7
    IN  (sunday0 + 6) % 7
DayName(cell) == IF cell.t = "date" THEN Str(days[Weekday(cell) + 1]) ELSE NaN
\* df['weekday'] = df['date'].dt.day_name(): a column added to the table
WithWeekday(df) ==
    [cols |-> IF HasCol(df, "weekday") THEN df.cols ELSE Append(df.cols, "weekday"),
     rows |-> [n \in DOMAIN df.rows |->
                 [c \in DOMAIN df.rows[n] \cup {"weekday"} |->
                     IF c = "weekday" THEN DayName(df.rows[n]["date"])
                     ELSE df.rows[n][c]]]]
\* weekly_load.reindex(days): the seven weekdays, missing where no row fell
Reindex(series, index) ==
    [n \in DOMAIN index |-> SeriesCell(series, Str(index[n]))]

\* Series.mean() + 2 * Series.std() compared with one value v of the series.
\* std is the sample standard deviation (ddof = 1), missing for one value;
\* a comparison with a missing limit is False.  With n values, sum S and
\* deviations n*x - S, v > mean + 2*std is  n*v - S > 0  and
\* (n - 1) * (n*v - S)^2 > 4 * sum((n*x - S)^2), in exact arithmetic.
Deviation(series, key) ==
    Cardinality(DOMAIN series) * series[key] - SumOver(series, DOMAIN series)
SquaredDeviations(series) ==
    SumOver([key \in DOMAIN series |-> Deviation(series, key) * Deviation(series, key)],
            DOMAIN series)
\* the mutant flags a value that equals the limit
AtOrAboveLimit(series, key) ==
    /\ Cardinality(DOMAIN series) >= 2
    /\ Deviation(series, key) >= 0
    /\ (Cardinality(DOMAIN series) - 1) * Deviation(series, key) * Deviation(series, key)
           >= 4 * SquaredDeviations(series)
AboveLimit(series, key) ==
    /\ Cardinality(DOMAIN series) >= 2
    /\ Deviation(series, key) > 0
    /\ (Cardinality(DOMAIN series) - 1) * Deviation(series, key) * Deviation(series, key)
           > 4 * SquaredDeviations(series)
\* np.where(df_daily['Volume'] > limit, 'Anomaly (>2 sigma)', 'Normal')
Status(series) ==
    [key \in DOMAIN series |-> IF AboveLimit(series, key) THEN "Anomaly" ELSE "Normal"]
\* daily_load[daily_load > limit]
Spikes(series) == { key \in DOMAIN series : AboveLimit(series, key) }

(* Loaded tables the aggregations are run on: dates parsed, states
   canonical, missing numbers filled *)
DemoCols == <<"date", "state", "district", "pincode", "demo_age_5_17", "demo_age_17_">>
BioCols == <<"date", "state", "district", "pincode", "bio_age_5_17", "bio_age_17_">>
Puri == <<"P","u","r","i">>
Angul == <<"A","n","g","u","l">>
Boudh == <<"B","o","u","d","h">>
DemoRow(date, district, pin, c5, c17) ==
    [date |-> date, state |-> Str(Odisha), district |-> Str(district),
     pincode |-> Num(pin), demo_age_5_17 |-> Num(c5), demo_age_17_ |-> Num(c17)]
BioRow(date, district, pin, b17) ==
    [date |-> date, state |-> Str(Odisha), district |-> Str(district),
     pincode |-> Num(pin), bio_age_5_17 |-> Num(0), bio_age_17_ |-> Num(b17)]
\* six days, the first and the last a Saturday
AggDays == <<Date(1, 3, 2025), Date(2, 3, 2025), Date(3, 3, 2025), Date(4, 3, 2025),
             Date(5, 3, 2025), Date(8, 3, 2025)>>
AggDistricts == <<Puri, Angul, Puri, Angul, Boudh, Puri>>
\* the first day's count varies, the later days' counts are fixed
Surges == {0, 26, 27, 28, 150}
Quiet == <<0, 0, 2, 3, 4, 6>>
PinPlans == {"same", "alternate"}
PinOf(plan, m) == IF plan = "same" THEN 1 ELSE 1 + (m % 2)
Extras == {"none", "nat", "dup"}
ExtraRows(e) ==
    CASE e = "none" -> <<>>
      [] e = "nat"  -> <<DemoRow(NaT, Puri, 1, 0, 5)>>
      [] e = "dup"  -> <<DemoRow(AggDays[1], Angul, 1, 1, 1)>>
DemoTable(n, x, plan, e) ==
    [cols |-> DemoCols,
     rows |-> [m \in 1..n |-> DemoRow(AggDays[m], AggDistricts[m], PinOf(plan, m), 0,
                                      IF m = 1 THEN x ELSE Quiet[m])]
              \o ExtraRows(e)]
DemoTables ==
    {EmptyDF} \cup { DemoTable(n, x, plan, e) :
                       n \in DOMAIN AggDays, x \in Surges, plan \in PinPlans, e \in Extras }
BioTables ==
    {EmptyDF,
     [cols |-> BioCols, rows |-> <<BioRow(AggDays[1], Puri, 1, 0)>>],
     [cols |-> BioCols, rows |-> <<BioRow(AggDays[1], Puri, 1, 200)>>],
     [cols |-> BioCols, rows |-> <<BioRow(AggDays[1], Puri, 1, 200),
                                   BioRow(AggDays[2], Boudh, 3, 7)>>]}

BlankOut == [err |-> "none", msg |-> FALSE, ratio |-> <<>>, above |-> {},
             daily |-> <<>>, status |-> <<>>, spikes |-> {}, weekly |-> <<>>]

AggInit ==
    /\ NormIdle /\ LoadIdle /\ PageIdle /\ SoloIdle /\ CacheIdle /\ StatIdle
    /\ a_demo \in DemoTables
    /\ a_bio \in BioTables
    /\ a_pc = "ready"
    /\ a_out = BlankOut

\* Societal Trends, tab 2: ratio of demographic to biometric updates per district
SocietalRatio ==
    /\ a_pc = "ready"
    /\ a_pc' = "societal"
    /\ a_out' = IF ~IsEmpty(a_bio) /\ ~IsEmpty(a_demo)
                THEN LET frame == RatioFrame(GroupTotalsNumeric(a_demo, "district"),
                                             GroupTotalsNumeric(a_bio, "district"))
                     IN  [BlankOut EXCEPT !.ratio = frame, !.above = AboveNoise(frame)]
                ELSE [BlankOut EXCEPT !.msg = TRUE]
    /\ UNCHANGED <<normVars, loadVars, statVars, cacheVars, pageVars, soloVars, a_demo, a_bio>>

\* q3_urban_rural_divide(df_bio, df_demo): the ratio per pincode
UrbanRuralDivide ==
    /\ a_pc = "ready"
    /\ a_pc' = "q3"
    /\ a_out' = IF /\ HasCol(a_demo, "pincode") /\ HasCol(a_demo, "demo_age_17_")
                   /\ HasCol(a_bio, "pincode") /\ HasCol(a_bio, "bio_age_17_")
                THEN [BlankOut EXCEPT !.ratio =
                        PinFrame(GroupTotals(a_demo, "pincode", {"demo_age_17_"}),
                                 GroupTotals(a_bio, "pincode", {"bio_age_17_"}))]
                ELSE [BlankOut EXCEPT !.err = "KeyError"]
    /\ UNCHANGED <<normVars, loadVars, statVars, cacheVars, pageVars, soloVars, a_demo, a_bio>>

\* Ops Efficiency, weekly trend: the weekday column is added to df_demo itself
OpsWeeklyTrend ==
    /\ a_pc = "ready"
    /\ a_pc' = "ops"
    /\ IF ~IsEmpty(a_demo)
       THEN /\ a_demo' = WithWeekday(a_demo)
            /\ a_out' = [BlankOut EXCEPT !.weekly =
                           Reindex(GroupTotalsNumeric(a_demo', "weekday"), days)]
       ELSE /\ a_demo' = a_demo
            /\ a_out' = [BlankOut EXCEPT !.msg = TRUE]
    /\ UNCHANGED <<normVars, loadVars, statVars, cacheVars, pageVars, soloVars, a_bio>>

\* Q4: Anomaly Detection page: daily volume and the status of every day
DailyAnomaly ==
    /\ a_pc = "ready"
    /\ a_pc' = "q4page"
    /\ a_out' = IF ~IsEmpty(a_demo)
                THEN LET daily == GroupTotalsNumeric(a_demo, "date")
                     IN  [BlankOut EXCEPT !.daily = daily, !.status = Status(daily)]
                ELSE [BlankOut EXCEPT !.msg = TRUE]
    /\ UNCHANGED <<normVars, loadVars, statVars, cacheVars, pageVars, soloVars, a_demo, a_bio>>

\* q4_load_volatility(df_demo): daily load of the two counters and its spikes
LoadVolatility ==
    /\ a_pc = "ready"
    /\ a_pc' = "q4"
    /\ a_out' = IF HasCol(a_demo, "date")
                THEN LET daily_load == GroupTotals(a_demo, "date",
                                                   {"demo_age_5_17", "demo_age_17_"})
                     IN  [BlankOut EXCEPT !.daily = daily_load,
                                          !.spikes = Spikes(daily_load)]
                ELSE [BlankOut EXCEPT !.err = "KeyError"]
    /\ UNCHANGED <<normVars, loadVars, statVars, cacheVars, pageVars, soloVars, a_demo, a_bio>>

AggNext == SocietalRatio \/ UrbanRuralDivide \/ OpsWeeklyTrend \/ DailyAnomaly
           \/ LoadVolatility

SpecAgg == AggInit /\ [][AggNext]_vars

---------------------------------------------------------------------------
(* Properties of the aggregations (checked under SpecAgg) *)

\* the count of group g computed from the rows themselves: 0 for a group
\* without rows
CountIn(df, by, g, cols) ==
    SumSeq([n \in DOMAIN df.rows |->
              IF df.rows[n][by] = g THEN RowTotal(df.rows[n], cols) ELSE 0])
DemoNumeric == {"pincode", "demo_age_5_17", "demo_age_17_"}
BioNumeric == {"pincode", "bio_age_5_17", "bio_age_17_"}
IsShiftedRatio(r, demo, bio) ==
    /\ r.den >= 1
    /\ r.num * (bio + 1) = demo * r.den
    /\ bio = 0 => r.num = demo * r.den

SumSquares(series) ==
    SumOver([key \in DOMAIN series |-> series[key] * series[key]], DOMAIN series)
SideOfLimit(series, key) ==
    LET n == Cardinality(DOMAIN series)
        S == SumOver(series, DOMAIN series)
        lhs == (n - 1) * (n * series[key] - S) * (n * series[key] - S)
        rhs == 4 * n * (n * SumSquares(series) - S * S)
    IN  CASE n < 2 -> "undefined"
          [] n >= 2 /\ n * series[key] > S /\ lhs > rhs -> "above"
          [] n >= 2 /\ n * series[key] >= S /\ lhs = rhs -> "equal"
          [] OTHER -> "below"

\* C18: a day is flagged as an anomaly exactly when its daily volume is
\* strictly greater than mean + 2 * std of the daily volumes; a day whose
\* volume equals that limit is Normal; on the Q4 page every day has exactly
\* one of the two statuses.
C18_StrictlyAboveLimit ==
    /\ a_pc = "q4page" =>
         /\ DOMAIN a_out.status = DOMAIN a_out.daily
         /\ \A d \in DOMAIN a_out.daily :
              /\ a_out.status[d] \in {"Anomaly", "Normal"}
              /\ a_out.status[d] = "Anomaly" <=> SideOfLimit(a_out.daily, d) = "above"
              /\ SideOfLimit(a_out.daily, d) = "equal" => a_out.status[d] = "Normal"
    /\ a_pc = "q4" =>
         /\ a_out.spikes \subseteq DOMAIN a_out.daily
         /\ \A d \in DOMAIN a_out.daily :
              d \in a_out.spikes <=> SideOfLimit(a_out.daily, d) = "above"

\* a day above the mean whose volume is exactly mean + 2 * std stays Normal
C18_Witness ==
    /\ a_pc = "q4page"
    /\ \E d \in DOMAIN a_out.daily :
         /\ SideOfLimit(a_out.daily, d) = "equal"
         /\ Deviation(a_out.daily, d) > 0
         /\ a_out.status[d] = "Normal"

\* the total of cols over the rows of df whose date is not null
DatedTotal(df, cols) ==
    SumSeq([n \in DOMAIN df.rows |->
              IF df.rows[n]["date"].t = "date" THEN RowTotal(df.rows[n], cols) ELSE 0])
NullDateRows(df) == { n \in DOMAIN df.rows : df.rows[n]["date"].t = "nat" }

\* C20: a row with a null date stays in the table and falls in no time
\* bucket: the weekday buckets of the Ops Efficiency page, and the per-day
\* buckets used for anomaly detection, add up to the total of the summed
\* columns over exactly the rows whose date is not null.
C20_NullDateInNoBucket ==
    /\ (a_pc = "ops" /\ ~a_out.msg) =>
         SumSeq([n \in DOMAIN a_out.weekly |-> CellNum(a_out.weekly[n])])
             = DatedTotal(a_demo, DemoNumeric)
    /\ (a_pc = "q4page" /\ ~a_out.msg) =>
         /\ SumOver(a_out.daily, DOMAIN a_out.daily) = DatedTotal(a_demo, DemoNumeric)
         /\ \A d \in DOMAIN a_out.daily : d.t = "date"
    /\ (a_pc = "q4" /\ a_out.err = "none") =>
         /\ SumOver(a_out.daily, DOMAIN a_out.daily)
                = DatedTotal(a_demo, {"demo_age_5_17", "demo_age_17_"})
         /\ \A d \in DOMAIN a_out.daily : d.t = "date"

\* the table holds a null-dated row with a positive total next to dated rows
C20_Witness ==
    /\ a_pc = "ops"
    /\ \E n \in NullDateRows(a_demo) :
         /\ RowTotal(a_demo.rows[n], DemoNumeric) > 0
         /\ a_demo.rows[n]["weekday"] = NaN
    /\ DatedTotal(a_demo, DemoNumeric) > 0
    /\ \E n \in DOMAIN a_out.weekly : a_out.weekly[n] = NaN

---------------------------------------------------------------------------
(* One run of a dashboard script on the tables the loader returned:
   validation check, sidebar, then the page chosen in the sidebar *)

Scripts == {"dashboard", "manus", "jan18"}
Inspector(s) == IF s = "dashboard" THEN "Raw Data Inspector" ELSE "Data Inspector"
\* the options of st.radio in the sidebar
Pages(s) ==
    IF s = "dashboard"
    THEN {"Executive Summary", "Border Security", "Ops Efficiency", "Societal Trends",
          "Raw Data Inspector"}
    ELSE {"Executive Summary", "Q1", "Q2", "Q3", "Q4", "Q5", "Data Inspector"}

\* total_files == 0 / total_txns == 0 / all three tables empty
StopCondition(s, T, log) ==
    CASE s = "dashboard" -> SumOver(log, DOMAIN log) = 0
      [] s = "manus"     -> SumOver([key \in Keys |-> Len(T[key].rows)], Keys) = 0
      [] s = "jan18"     -> \A key \in Keys : IsEmpty(T[key])

(* A page is a list of blocks in source order.  A kpi is an expression
   `value if guard else 0` whose value is always displayed; a chart is drawn
   inside `if guard:`, with or without an else branch that shows a message.
   needs are the columns the guarded code selects by name (KeyError when one
   is absent); weekday lists the tables to which the block adds a weekday
   column. *)
Block(name, kind, guard, needs, orelse, weekday) ==
    [name |-> name, kind |-> kind, guard |-> guard, needs |-> needs,
     orelse |-> orelse, weekday |-> weekday]
Of(key, cs) == { <<key, c>> : c \in cs }
Ages == {"age_0_5", "age_5_17", "age_18_greater"}
BioCounters == {"bio_age_5_17", "bio_age_17_"}
DemoCounters == {"demo_age_5_17", "demo_age_17_"}

DashboardBlocks(p, T) ==
    LET E(key) == ~IsEmpty(T[key])
    IN  CASE p = "Executive Summary" ->
              <<Block("total_enrol", "kpi", E("enrol"), {}, FALSE, {}),
                Block("total_updates", "kpi", E("bio"), {}, FALSE, {})>>
          [] p = "Border Security" ->
              <<Block("fig", "chart", E("enrol"), Of("enrol", {"state", "district"}),
                      TRUE, {})>>
          [] p = "Ops Efficiency" ->
              <<Block("fig_week", "chart", E("demo"), Of("demo", {"date"}), TRUE, {"demo"}),
                Block("fig_month", "chart", E("demo"), Of("demo", {"date"}), TRUE, {})>>
          [] p = "Societal Trends" ->
              <<Block("fig_ne", "chart", E("enrol"),
                      Of("enrol", {"state", "age_0_5", "age_18_greater"}), FALSE, {}),
                Block("fig_div", "chart", E("bio") /\ E("demo"),
                      Of("demo", {"district"}) \cup Of("bio", {"district"}), TRUE, {})>>

\* the maintenance matrix of the Q1 pages: the update tables are read only
\* when they are not empty
MatrixNeeds(T) ==
    Of("enrol", {"state"} \cup Ages)
    \cup (IF ~IsEmpty(T["bio"]) THEN Of("bio", {"state"} \cup BioCounters) ELSE {})
    \cup (IF ~IsEmpty(T["demo"]) THEN Of("demo", {"state"} \cup DemoCounters) ELSE {})

ManusBlocks(p, T) ==
    LET E(key) == ~IsEmpty(T[key])
    IN  CASE p = "Executive Summary" ->
              <<Block("total_enrol", "kpi", E("enrol"), Of("enrol", Ages), FALSE, {}),
                Block("total_updates", "kpi", E("bio") \/ E("demo"),
                      Of("bio", BioCounters) \cup Of("demo", DemoCounters), FALSE, {})>>
          [] p = "Q1" ->
              <<Block("fig", "chart", E("enrol") /\ (E("bio") \/ E("demo")),
                      MatrixNeeds(T), TRUE, {}),
                Block("fig_ne", "chart", E("enrol") /\ (E("bio") \/ E("demo")),
                      Of("enrol", {"state", "age_0_5", "age_18_greater"}), TRUE, {})>>
          [] p = "Q2" ->
              <<Block("fig_div", "chart", E("bio") /\ E("demo"),
                      Of("demo", {"district"} \cup DemoCounters)
                      \cup Of("bio", {"district"} \cup BioCounters), TRUE, {})>>
          [] p = "Q3" ->
              <<Block("fig", "chart", E("enrol"),
                      Of("enrol", {"state", "district"} \cup Ages), TRUE, {})>>
          [] p = "Q4" ->
              <<Block("fig_month", "chart", E("enrol"), Of("enrol", {"date"}), FALSE, {}),
                Block("fig_corr", "chart", E("enrol") /\ E("demo"),
                      Of("enrol", {"state", "age_0_5"})
                      \cup Of("demo", {"state", "demo_age_17_"}), FALSE, {})>>
          [] p = "Q5" ->
              <<Block("fig_week", "chart", E("demo"), Of("demo", {"date"}), FALSE, {"demo"}),
                Block("fig_month_d", "chart", E("demo"), Of("demo", {"date"}), FALSE, {})>>

Jan18Blocks(p, T) ==
    LET E(key) == ~IsEmpty(T[key])
    IN  CASE p = "Executive Summary" ->
              <<Block("total_txns", "kpi", TRUE, {}, FALSE, {})>>
          [] p = "Q1" ->
              <<Block("fig", "chart", E("enrol") /\ (E("bio") \/ E("demo")),
                      MatrixNeeds(T), TRUE, {})>>
          [] p = "Q2" ->
              <<Block("fig", "chart", E("enrol") /\ E("bio"),
                      Of("enrol", {"state", "age_5_17"})
                      \cup Of("bio", {"state", "bio_age_5_17"}), TRUE, {})>>
          [] p = "Q3" ->
              <<Block("fig", "chart", E("demo") /\ E("bio"),
                      Of("demo", {"pincode", "demo_age_17_"})
                      \cup Of("bio", {"pincode", "bio_age_17_"}), TRUE, {})>>
          [] p = "Q4" ->
              <<Block("fig", "chart", E("demo"), Of("demo", {"date"}), TRUE, {})>>
          [] p = "Q5" ->
              <<Block("fig", "chart", E("demo"), Of("demo", {"date"}), TRUE, {})>>

PageBlocks(s, p, T) ==
    CASE s = "dashboard" -> DashboardBlocks(p, T)
      [] s = "manus"     -> ManusBlocks(p, T)
      [] s = "jan18"     -> Jan18Blocks(p, T)

\* the effect of one block on the run: tables, charts and values shown,
\* messages shown in place of a chart, exception raised
RunBlock(st, b) ==
    IF st.err # "none" THEN st
    ELSE IF b.guard
    THEN IF \A need \in b.needs : HasCol(st.tables[need[1]], need[2])
         THEN [st EXCEPT !.shown = @ \cup {b.name},
                         !.tables = [key \in Keys |-> IF key \in b.weekday
                                                      THEN WithWeekday(@[key]) ELSE @[key]]]
         ELSE [st EXCEPT !.err = "KeyError"]
    ELSE IF b.kind = "kpi" THEN [st EXCEPT !.shown = @ \cup {b.name}]
    ELSE IF b.orelse THEN [st EXCEPT !.msgs = @ \cup {b.name}]
    ELSE st
RECURSIVE RunBlocks(_, _)
RunBlocks(st, blocks) ==
    IF blocks = <<>> THEN st ELSE RunBlocks(RunBlock(st, Head(blocks)), Tail(blocks))

\* st.dataframe(target_df.head(1000))
PreviewCap == 1000
HeadRows(rows, n) == SubSeq(rows, 1, IF Len(rows) < n THEN Len(rows) ELSE n)
\* target_df['state'].unique()
StateOptions(df) == { df.rows[n]["state"] : n \in DOMAIN df.rows }
\* target_df[target_df['state'].isin(states)] if states, else target_df
FilterStates(df, states) ==
    IF states # {} THEN SelectSeq(df.rows, LAMBDA r : r["state"] \in states) ELSE df.rows
\* the mutant builds the file from the rows of the preview
DownloadRowsCapped(rows) == HeadRows(rows, PreviewCap)
\* target_df.to_csv(index=False): a header line and one record per row
DownloadRows(rows) == rows
NoCsv == [offered |-> FALSE, header |-> <<>>, records |-> <<>>]
ToCsv(cols, rows) == [offered |-> TRUE, header |-> cols, records |-> DownloadRows(rows)]

(* Tables a loader run returns: no file matched (pd.DataFrame()), only
   header-only files loaded, or rows of the published schema *)
EnrolCols == <<"date", "state", "district", "pincode", "age_0_5", "age_5_17",
               "age_18_greater">>
EnrolRow(date, state, district, a0, a5, a18) ==
    [date |-> date, state |-> Str(state), district |-> Str(district), pincode |-> Num(1),
     age_0_5 |-> Num(a0), age_5_17 |-> Num(a5), age_18_greater |-> Num(a18)]
SchemaCols(key) == CASE key = "enrol" -> EnrolCols [] key = "bio" -> BioCols
                     [] key = "demo" -> DemoCols
HeaderOnly(key) == [cols |-> SchemaCols(key), rows |-> <<>>]
SmallEnrol ==
    [cols |-> EnrolCols,
     rows |-> <<EnrolRow(AggDays[1], Odisha, Puri, 1, 2, 3),
                EnrolRow(AggDays[2], Goa, Angul, 4, 0, 1),
                EnrolRow(NaT, Odisha, Boudh, 0, 5, 0)>>]
\* more rows than the preview shows; the first row is the only one of Goa
LongEnrol ==
    [cols |-> EnrolCols,
     rows |-> [n \in 1..(PreviewCap + 2) |->
                 EnrolRow(AggDays[1], IF n = 1 THEN Goa ELSE Odisha, Puri, n, 0, 0)]]
SmallBio ==
    [cols |-> BioCols, rows |-> <<BioRow(AggDays[1], Puri, 1, 200),
                                  BioRow(AggDays[2], Boudh, 3, 7)>>]
SmallDemo == DemoTable(2, 27, "same", "nat")
PageTables(key) ==
    {EmptyDF, HeaderOnly(key)} \cup
    CASE key = "enrol" -> {SmallEnrol, LongEnrol}
      [] key = "bio"   -> {SmallBio}
      [] key = "demo"  -> {SmallDemo}
\* file_log of a run that returned T: a category table is pd.DataFrame()
\* exactly when no file of the category was loaded
LogOf(T) == [key \in Keys |-> IF T[key] = EmptyDF THEN 0 ELSE 1]

BlankScreen == [stopmsg |-> FALSE, sidebar |-> FALSE, shown |-> {}, msgs |-> {},
                choice |-> "none", sel |-> {}, preview |-> <<>>, csv |-> NoCsv]

PageInit ==
    /\ NormIdle /\ LoadIdle /\ AggIdle /\ SoloIdle /\ CacheIdle /\ StatIdle
    /\ script \in Scripts
    /\ tables \in { T \in [Keys -> UNION { PageTables(key) : key \in Keys }] :
                      \A key \in Keys : T[key] \in PageTables(key) }
    /\ loaded = tables
    /\ log_counts = LogOf(tables)
    /\ rpc = "check"
    /\ page = "none"
    /\ screen = BlankScreen
    /\ perr = "none"

\* the validation check after the load: st.error(...) and st.stop()
ValidationCheck ==
    /\ rpc = "check"
    /\ IF StopCondition(script, tables, log_counts)
       THEN rpc' = "stopped" /\ screen' = [screen EXCEPT !.stopmsg = TRUE]
       ELSE rpc' = "sidebar" /\ screen' = screen
    /\ UNCHANGED <<normVars, loadVars, statVars, cacheVars, aggVars, soloVars, script, tables, loaded, log_counts, page, perr>>

\* with st.sidebar: the navigation radio and the data status
Sidebar ==
    /\ rpc = "sidebar"
    /\ \E p \in Pages(script) : page' = p
    /\ screen' = [screen EXCEPT !.sidebar = TRUE]
    /\ rpc' = "page"
    /\ UNCHANGED <<normVars, loadVars, statVars, cacheVars, aggVars, soloVars, script, tables, loaded, log_counts, perr>>

\* the branch of the if/elif chain for the chosen page (all but the inspector)
RenderPage ==
    /\ rpc = "page" /\ page # Inspector(script)
    /\ LET st == RunBlocks([tables |-> tables, shown |-> {}, msgs |-> {}, err |-> "none"],
                           PageBlocks(script, page, tables))
       IN  /\ tables' = st.tables
           /\ screen' = [screen EXCEPT !.shown = st.shown, !.msgs = st.msgs]
           /\ perr' = st.err
           /\ rpc' = IF st.err = "none" THEN "end" ELSE "raised"
    /\ UNCHANGED <<normVars, loadVars, statVars, cacheVars, aggVars, soloVars, script, loaded, log_counts, page>>

\* the inspector page: dataset choice, state filter, preview and download
Inspect ==
    /\ rpc = "page" /\ page = Inspector(script)
    /\ \E choice \in Keys :
         LET target == tables[choice]
         IN  IF IsEmpty(target)
             THEN /\ screen' = [screen EXCEPT !.choice = choice, !.msgs = {"preview"}]
                  /\ perr' = "none" /\ rpc' = "end"
             ELSE IF ~HasCol(target, "state") /\ script # "manus"
             THEN /\ screen' = [screen EXCEPT !.choice = choice]
                  /\ perr' = "KeyError" /\ rpc' = "raised"
             ELSE \E states \in SUBSET (IF HasCol(target, "state")
                                        THEN StateOptions(target) ELSE {}) :
                    LET rows == FilterStates(target, states)
                    IN  /\ screen' = [screen EXCEPT
                                        !.choice = choice, !.sel = states,
                                        !.shown = {"preview"},
                                        !.preview = HeadRows(rows, PreviewCap),
                                        !.csv = IF script = "jan18" THEN NoCsv
                                                ELSE ToCsv(target.cols, rows)]
                        /\ perr' = "none" /\ rpc' = "end"
    /\ UNCHANGED <<normVars, loadVars, statVars, cacheVars, aggVars, soloVars, script, tables, loaded, log_counts, page>>

PageNext == ValidationCheck \/ Sidebar \/ RenderPage \/ Inspect

SpecPages == PageInit /\ [][PageNext]_vars

---------------------------------------------------------------------------
(* Properties of a dashboard run (checked under SpecPages) *)

AllEmpty(T) == \A key \in Keys : IsEmpty(T[key])

\* C12: the run is stopped with the no-data message exactly when all three
\* category tables are empty; a stopped run renders neither the sidebar nor
\* a page, and a run with a non-empty table is not stopped.
C12_StopIffNoData ==
    rpc # "check" =>
        /\ rpc = "stopped" <=> AllEmpty(loaded)
        /\ rpc = "stopped" =>
             /\ screen.stopmsg /\ ~screen.sidebar
             /\ screen.shown = {} /\ screen.msgs = {} /\ page = "none"

\* C13: with at least one non-empty category table, no page raises an
\* exception, whichever of the other tables are empty.
C13_NoPageRaises ==
    ~AllEmpty(loaded) => (perr = "none" /\ rpc # "raised")

Charts(s, p, T) ==
    IF p = Inspector(s) THEN {"preview"}
    ELSE { PageBlocks(s, p, T)[n].name :
             n \in { m \in DOMAIN PageBlocks(s, p, T) : PageBlocks(s, p, T)[m].kind = "chart" } }

\* C14: on a page rendered with at least one non-empty table every chart is
\* either drawn or replaced by a warning or error message; none is left
\* blank without a message.
C14_ChartOrMessage ==
    (rpc = "end" /\ ~AllEmpty(loaded)) =>
        \A c \in Charts(script, page, loaded) : c \in screen.shown \cup screen.msgs

\* C16: after the loader has returned, no step of a run changes the rows or
\* the columns of a category table.
C16_TablesNotModified ==
    \A key \in DOMAIN tables : tables[key] = loaded[key]

\* rows lo..hi of df without those whose state is not selected; nothing is
\* dropped when no state is selected
RECURSIVE SelectedIn(_, _, _, _)
SelectedIn(df, states, lo, hi) ==
    IF lo > hi THEN <<>>
    ELSE IF lo = hi
    THEN (IF states = {} \/ df.rows[lo]["state"] \in states THEN <<df.rows[lo]>> ELSE <<>>)
    ELSE SelectedIn(df, states, lo, (lo + hi) \div 2)
         \o SelectedIn(df, states, ((lo + hi) \div 2) + 1, hi)
Selected(df, states) == SelectedIn(df, states, 1, Len(df.rows))

\* C17: the file offered for download in the Data Inspector holds exactly
\* the rows of the chosen dataset whose state is selected (all rows when no
\* state is selected), in table order; only the preview is cut to 1000 rows.
C17_DownloadIsFilteredTable ==
    (rpc = "end" /\ page = Inspector(script) /\ screen.csv.offered) =>
        /\ screen.csv.header = loaded[screen.choice].cols
        /\ screen.csv.records = Selected(loaded[screen.choice], screen.sel)
        /\ Len(screen.preview) <= PreviewCap
        /\ screen.preview = SubSeq(screen.csv.records, 1, Len(screen.preview))

\* a state filter that drops a row and still leaves more rows than the preview shows
C17_Witness ==
    /\ rpc = "end" /\ page = Inspector(script) /\ screen.csv.offered
    /\ screen.sel # {}
    /\ Len(screen.csv.records) > PreviewCap
    /\ Len(screen.csv.records) < Len(loaded[screen.choice].rows)
    /\ Len(screen.preview) = PreviewCap

---------------------------------------------------------------------------
(* The standalone loaders: load_all_data of temo.py and load_data of
   manus/verify_regional_trends.py.  Neither catches an exception. *)

SoloScripts == {"temo", "verify"}
ShortEnrol == <<"e","n","r","o","l","m","e","n","t">>
ShortBio == <<"b","i","o","m","e","t","r","i","c">>
ShortDemo == <<"d","e","m","o","g","r","a","p","h","i","c">>
ShortKeyword(key) == CASE key = "enrol" -> ShortEnrol [] key = "bio" -> ShortBio
                       [] key = "demo" -> ShortDemo
\* '<dir>/*enrolment*.csv' in temo.py, '<dir>/*.csv' in verify_regional_trends.py
SoloMatch(sc, path, key) ==
    /\ path.dir = GlobDir(key)
    /\ EndsWith(path.name, CsvExt)
    /\ sc = "temo" =>
         Contains(SubSeq(path.name, 1, Len(path.name) - Len(CsvExt)), ShortKeyword(key))
SoloHits(sc, walk, key) == SelectSeq(walk, LAMBDA e : SoloMatch(sc, e.path, key))
\* the order of the load statements
SoloOrder(sc) == IF sc = "temo" THEN <<"enrol", "bio", "demo">>
                 ELSE <<"enrol", "demo", "bio">>

\* clean_df of temo.py, with its own alias table
temo_state_map_keys == {Westbengal, Uttaranchal, Orissa}
temo_state_map ==
    [key \in temo_state_map_keys |->
        CASE key = Westbengal  -> WestBengal
          [] key = Uttaranchal -> Uttarakhand
          [] key = Orissa      -> Odisha]
TemoNormalizeState(x) ==
    Title(Strip(IF x \in temo_state_map_keys THEN temo_state_map[x] ELSE x))
TemoNormalizeCell(cell) ==
    IF cell.t = "str" THEN Str(TemoNormalizeState(cell.s)) ELSE cell
clean_df(df) ==
    LET dated == ParseDateColumn(df)
        named == [dated EXCEPT !.rows = [n \in DOMAIN dated.rows |->
                     [dated.rows[n] EXCEPT !["state"] = TemoNormalizeCell(@)]]]
    IN  FillNumeric(named)
\* what reading one file raises, or "none"
SoloFileError(sc, c) ==
    IF ~c.ok THEN "ParserError"
    ELSE IF sc # "temo" THEN "none"
    ELSE IF ~HasCol(c.df, "date") \/ ~HasCol(c.df, "state") THEN "KeyError"
    ELSE IF StrAccessorRaises(c.df) THEN "AttributeError"
    ELSE "none"
SoloFrame(sc, c) == IF sc = "temo" THEN clean_df(c.df) ELSE c.df
\* the list comprehension and pd.concat of it: the first file that raises
\* ends the script; pd.concat of an empty list raises ValueError
SoloError(sc, hits) ==
    IF \E n \in DOMAIN hits : SoloFileError(sc, hits[n].content) # "none"
    THEN SoloFileError(sc, hits[CHOOSE n \in DOMAIN hits :
                                 /\ SoloFileError(sc, hits[n].content) # "none"
                                 /\ \A m \in 1..(n - 1) :
                                      SoloFileError(sc, hits[m].content) = "none"].content)
    ELSE IF hits = <<>> THEN "ValueError"
    ELSE "none"
SoloTable(sc, hits) == Concat([n \in DOMAIN hits |-> SoloFrame(sc, hits[n].content)])

SoloInit ==
    /\ NormIdle /\ LoadIdle /\ AggIdle /\ PageIdle /\ CacheIdle /\ StatIdle
    /\ s_script \in SoloScripts
    /\ s_fs \in Walks
    /\ s_pc = "load"
    /\ s_k = 1
    /\ s_tables = <<>>
    /\ s_exc = "none"

\* one load statement that completes
SoloLoad ==
    /\ s_pc = "load"
    /\ LET key == SoloOrder(s_script)[s_k]
           hits == SoloHits(s_script, s_fs, key)
       IN  /\ SoloError(s_script, hits) = "none"
           /\ s_tables' = s_tables @@ (key :> SoloTable(s_script, hits))
    /\ s_k' = s_k + 1
    /\ s_pc' = IF s_k = Len(SoloOrder(s_script)) THEN "done" ELSE "load"
    /\ UNCHANGED <<normVars, loadVars, statVars, cacheVars, aggVars, pageVars, s_script, s_fs, s_exc>>

\* one load statement that raises: the script ends with a traceback
SoloRaise ==
    /\ s_pc = "load"
    /\ LET key == SoloOrder(s_script)[s_k]
           hits == SoloHits(s_script, s_fs, key)
       IN  /\ SoloError(s_script, hits) # "none"
           /\ s_exc' = SoloError(s_script, hits)
    /\ s_pc' = "raised"
    /\ UNCHANGED <<normVars, loadVars, statVars, cacheVars, aggVars, pageVars, s_script, s_fs, s_k, s_tables>>

SoloNext == SoloLoad \/ SoloRaise

SpecSolo == SoloInit /\ [][SoloNext]_vars

\* C19: in load_all_data and load_data a category whose pattern matches no
\* file yields an empty table and no exception.
C19_ZeroMatchIsEmpty ==
    \A n \in DOMAIN SoloOrder(s_script) :
        LET key == SoloOrder(s_script)[n]
        IN  (/\ SoloHits(s_script, s_fs, key) = <<>>
             /\ (n < s_k \/ (n = s_k /\ s_pc = "raised")))
            => /\ s_exc = "none"
               /\ key \in DOMAIN s_tables
               /\ IsEmpty(s_tables[key])

---------------------------------------------------------------------------
(* @st.cache_data on load_data_recursive: the script reruns on every
   interaction, the decorated call scans only on a cache miss *)

\* content of a path of a given tree
ContentIn(walk, path) == (CHOOSE e \in Range(walk) : e.path = path).content

\* the os.walk loop as a whole: every file is filed under its category
RECURSIVE FiledAll(_, _)
FiledAll(store, walk) ==
    IF walk = <<>> THEN store ELSE FiledAll(Filed(store, Head(walk).path), Tail(walk))

\* the `for p in paths` loop as a whole
RECURSIVE FramesOf(_, _, _)
FramesOf(walk, paths, frames) ==
    IF paths = <<>> THEN frames
    ELSE FramesOf(walk, Tail(paths), LoadedFrames(frames, ContentIn(walk, Head(paths))))

\* final_dfs before the cleaning loop
RawTables(walk) ==
    LET store == FiledAll([key \in Keys |-> <<>>], walk)
    IN  [key \in Keys |->
            IF store[key] = <<>> THEN EmptyDF
            ELSE Concatenated(FramesOf(walk, store[key], <<>>))]

\* file_log: the number of frames read per category
FileLog(walk) ==
    LET store == FiledAll([key \in Keys |-> <<>>], walk)
    IN  [key \in Keys |-> Len(FramesOf(walk, store[key], <<>>))]

\* the exception of the first table whose cleaning raises, or "none"
RECURSIVE FirstCleanError(_, _)
FirstCleanError(tabs, n) ==
    IF n > Len(KeyOrder) THEN "none"
    ELSE IF CleanError("dashboard", tabs[KeyOrder[n]]) # "none"
         THEN CleanError("dashboard", tabs[KeyOrder[n]])
    ELSE FirstCleanError(tabs, n + 1)

NoTables == [key \in Keys |-> EmptyDF]
NoLog == [key \in Keys |-> 0]
NoResult == [err |-> "unset", data |-> NoTables, log |-> NoLog]
NoEntry == [full |-> FALSE, value |-> NoResult]

\* one call of the undecorated load_data_recursive on a tree: the pair
\* (final_dfs, file_log) it returns, or the exception it raises
LoadOutcome(walk) ==
    LET tabs == RawTables(walk)
        err  == FirstCleanError(tabs, 1)
    IN  IF err # "none" THEN [err |-> err, data |-> NoTables, log |-> NoLog]
        ELSE [err  |-> "none",
              data |-> [key \in Keys |-> CleanTable("dashboard", tabs[key])],
              log  |-> FileLog(walk)]

\* mutant: the entry is also invalidated when the files no longer give the
\* cached result (content change detection)
CacheHitIfUnchanged(cache, disk) == cache.full /\ cache.value = LoadOutcome(disk)

\* st.cache_data: the key is the function and its arguments (there are none),
\* so an entry, once stored, is a hit whatever the tree holds
CacheHit(cache, disk) == cache.full

\* trees the dashboard can be started in, and changed to while it runs
MaxRuns == 3
CachePaths == {PathEnrol0, PathBio0}
CacheContents == {FrameA, FrameOther, Unreadable}
CacheDisks ==
    { w \in Walks : \A n \in DOMAIN w : /\ w[n].path \in CachePaths
                                        /\ w[n].content \in CacheContents }

CacheInit ==
    /\ NormIdle /\ LoadIdle /\ AggIdle /\ PageIdle /\ SoloIdle /\ StatIdle
    /\ c_disk \in CacheDisks
    /\ c_cache = NoEntry
    /\ c_scans = 0 /\ c_raised = 0
    /\ c_got = NoResult /\ c_first = NoResult
    /\ c_runs = 0
    /\ c_last = "start"

\* one run of the script (any interaction, any page): `Execute Load`
Rerun ==
    /\ c_runs < MaxRuns
    /\ LET hit == CacheHit(c_cache, c_disk)
           out == IF hit THEN c_cache.value ELSE LoadOutcome(c_disk)
       IN  /\ c_got' = out
           /\ c_scans' = IF hit THEN c_scans ELSE c_scans + 1
           /\ c_raised' = IF ~hit /\ out.err # "none" THEN c_raised + 1 ELSE c_raised
           /\ c_cache' = IF ~hit /\ out.err = "none"
                         THEN [full |-> TRUE, value |-> out] ELSE c_cache
           /\ c_first' = IF c_first = NoResult /\ out.err = "none" THEN out ELSE c_first
    /\ c_runs' = c_runs + 1
    /\ c_last' = "run"
    /\ UNCHANGED <<normVars, loadVars, statVars, aggVars, pageVars, soloVars, c_disk>>

\* matching files are added, removed or changed between two interactions
ChangeDisk ==
    /\ c_last # "change"
    /\ c_disk' \in CacheDisks \ {c_disk}
    /\ c_last' = "change"
    /\ UNCHANGED <<normVars, loadVars, statVars, aggVars, pageVars, soloVars,
                   c_cache, c_scans, c_raised, c_got, c_first, c_runs>>

\* the dashboard process is stopped and started again: the cache is gone
Restart ==
    /\ c_last = "run"
    /\ c_cache' = NoEntry
    /\ c_scans' = 0 /\ c_raised' = 0
    /\ c_got' = NoResult /\ c_first' = NoResult
    /\ c_last' = "restart"
    /\ UNCHANGED <<normVars, loadVars, statVars, aggVars, pageVars, soloVars, c_disk, c_runs>>

CacheNext == Rerun \/ ChangeDisk \/ Restart

SpecCache == CacheInit /\ [][CacheNext]_vars

---------------------------------------------------------------------------
(* Properties of the cached load (checked under SpecCache) *)

---------------------------------------------------------------------------
(* Further properties of the loader (checked under Spec) *)

\* the keys whose keyword a file name contains
KeysIn(name) == { key \in Keys : Contains(name, Keyword(key)) }
NoRepeat(q) == \A a, b \in DOMAIN q : a # b => q[a] # q[b]

\* C27: the walk files every scanned file under at most one category: the
\* three lists are pairwise disjoint and hold no path twice; a .csv file with
\* several keywords in its name is only in the list of the first of them in
\* the order enrolment, biometric, demographic; a file whose name does not end
\* with .csv is in no list.
C27_AtMostOneCategory ==
    variant # "analysis" =>
        /\ \A a, b \in Keys : a # b => Range(data_store[a]) \cap Range(data_store[b]) = {}
        /\ \A key \in Keys : NoRepeat(data_store[key])
        /\ \A p \in Walked :
              LET in == { key \in Keys : p \in Range(data_store[key]) }
              IN  /\ Cardinality(in) <= 1
                  /\ (EndsWith(p.name, CsvExt) /\ KeysIn(p.name) # {}) =>
                        \E key \in KeysIn(p.name) :
                            /\ in = {key}
                            /\ \A e \in EarlierKeys(key) : e \notin KeysIn(p.name)
                  /\ ~EndsWith(p.name, CsvExt) => in = {}
C27_Witness ==
    /\ pc = "load" /\ variant # "analysis"
    /\ Cardinality(KeysIn(PathDouble.name)) = 2
    /\ data_store = [key \in Keys |-> IF key = "enrol" THEN <<PathDouble>> ELSE <<>>]
    /\ \E n \in DOMAIN fs : fs[n].path = PathBackup

\* the matched files of a list that parse as a table but have no date column
Undated(c) == c.ok /\ ~HasCol(c.df, "date")

\* C29: a matched file that parses but has no date column is handled like an
\* unreadable one: reading raises nothing, none of its rows reaches the table
\* of its category, file_log does not count it, the other files of the
\* category are loaded as if it were not there, and it never makes the
\* cleaning raise.
C29_UndatedFileSkipped ==
    /\ pc \in {"scan", "load"} => exc = "none"
    /\ pc = "raised" => \E n \in DOMAIN data_store[CurKey] :
                            ~Undated(ContentOf(data_store[CurKey][n]))
                            /\ ContentOf(data_store[CurKey][n]).ok
    /\ \A key \in Assigned :
          LET others == SelectSeq(data_store[key],
                                  LAMBDA p : ~Undated(ContentOf(p)) /\ ContentOf(p).ok)
          IN  /\ Len(final_dfs[key].rows) = SumRows(others)
              /\ \A n \in DOMAIN final_dfs[key].rows :
                    "state" \in DOMAIN final_dfs[key].rows[n]
                        => final_dfs[key].rows[n].state # RowNoDate.state
              /\ variant \in {"dashboard", "manus"} => file_log[key] = Len(others)
C29_Witness ==
    /\ pc = "done"
    /\ \E key \in Keys :
          /\ Len(data_store[key]) = 2
          /\ ContentOf(data_store[key][1]) = FrameNoDate
          /\ ContentOf(data_store[key][2]) = FrameA
          /\ Len(final_dfs[key].rows) = 3
          /\ final_dfs[key].rows[1].date = Date(1, 3, 2025)

---------------------------------------------------------------------------
(* Further properties of the normalizer (checked under SpecNorm) *)

\* C28: after the normalization pass no state value is a key of state_map:
\* whatever the raw string, the stored value is none of the misspellings
\* 'Westbengal', 'West  Bengal', 'Uttaranchal', 'Orissa',
\* 'The Dadra And Nagar Haveli And Daman And Diu'.
C28_NoAliasRemains == npc # "raw" => once \notin state_map_keys

\* C30: clean_df of temo.py gives every raw state string the same normalized
\* state as the normalization pass of load_data_recursive and of
\* load_and_process_data.
C30_SameNormalization == npc # "raw" => TemoNormalizeState(raw) = once

---------------------------------------------------------------------------
(* Statistics on the three loaded tables: the charts of the dashboards, the
   figures of uidai_analysis_code.py, temo.py and verify_regional_trends.py *)

StatScripts == {"dashboard", "manus", "jan18", "analysis", "temo", "verify"}
AgeCols == {"age_0_5", "age_5_17", "age_18_greater"}
BioCounterCols == {"bio_age_5_17", "bio_age_17_"}
DemoCounterCols == {"demo_age_5_17", "demo_age_17_"}

\* groupby(by)[[col]].sum(): the total of one column per group
ColumnTotals(df, by, col) == GroupTotals(df, by, {col})

\* state_stats = df.groupby('state')[[...]].sum()
\* state_stats['Adult_Share'] = state_stats['age_18_greater'] / state_stats.sum(axis=1) * 100
\* the dashboards list two age columns, temo.py and verify_regional_trends.py three
AdultShareOf(sc, df) ==
    LET listed == IF sc \in {"dashboard", "manus"}
                  THEN {"age_0_5", "age_18_greater"} ELSE AgeCols
    IN  [g \in GroupKeys(df, "state") |->
            Divide(100 * ColumnTotals(df, "state", "age_18_greater")[g],
                   GroupTotals(df, "state", listed)[g])]


\* sort_values(col, ascending=False): larger values first, missing values
\* (a zero den) last; the order among equal values is not specified
Greater(r1, r2) ==
    IF r2.den = 0 THEN r1.den # 0
    ELSE r1.den # 0 /\ r1.num * r2.den > r2.num * r1.den
RECURSIVE SortDesc(_, _)
SortDesc(vals, S) ==
    IF S = {} THEN <<>>
    ELSE LET top == CHOOSE g \in S : \A h \in S : ~Greater(vals[h], vals[g])
         IN  <<top>> \o SortDesc(vals, S \ {top})
\* .head(n)
HeadOf(q, n) == SubSeq(q, 1, IF Len(q) < n THEN Len(q) ELSE n)
\* sort_values(..., ascending=False).head(n): the index labels that are plotted
TopBy(vals, S, n) == HeadOf(SortDesc(vals, S), n)
Whole(series) == [g \in DOMAIN series |-> Divide(series[g], 1)]

\* groupby(['state', 'district']): one group per pair of keys that occurs
PairKeys(df) ==
    { <<df.rows[n].state, df.rows[n].district>> :
        n \in { m \in DOMAIN df.rows : NotNull(df.rows[m].state)
                                       /\ NotNull(df.rows[m].district) } }
\* groupby(['state', 'district'])[cols].sum().sum(axis=1)
PairTotals(df, cols) ==
    [key \in PairKeys(df) |->
        LET rows == SelectSeq(df.rows, LAMBDA r : <<r.state, r.district>> = key)
        IN  SumSeq([n \in DOMAIN rows |-> RowTotal(rows[n], cols)])]
\* df[cols].sum().sum()
ColsTotal(df, cols) == SumSeq([n \in DOMAIN df.rows |-> RowTotal(df.rows[n], cols)])
\* df.select_dtypes(include='number').sum().sum()
NumericTotal(df) == ColsTotal(df, NumCols(df))

\* Border Security / Q3 / dist_enrol: the enrolment total per (state, district)
BorderTotals(sc, df) ==
    IF sc = "dashboard" THEN PairTotals(df, NumCols(df) \ {"state", "district"})
    ELSE PairTotals(df, AgeCols)
BorderShown == 15

\* Executive Summary, KPI row
ExecSummary(sc, e, b, d) ==
    IF sc = "dashboard"
    THEN LET total_enrol   == IF ~IsEmpty(e) THEN NumericTotal(e) ELSE 0
             total_updates == IF ~IsEmpty(b) THEN NumericTotal(b) + NumericTotal(d) ELSE 0
         IN  [err |-> "none", total_enrol |-> total_enrol, total_updates |-> total_updates,
              total |-> total_enrol + total_updates]
    ELSE IF \/ (~IsEmpty(e) /\ ~(AgeCols \subseteq Range(e.cols)))
            \/ ((~IsEmpty(b) \/ ~IsEmpty(d))
                /\ ~(BioCounterCols \subseteq Range(b.cols)
                     /\ DemoCounterCols \subseteq Range(d.cols)))
    THEN [err |-> "KeyError", total_enrol |-> 0, total_updates |-> 0, total |-> 0]
    ELSE [err |-> "none",
          total_enrol |-> IF ~IsEmpty(e) THEN ColsTotal(e, AgeCols) ELSE 0,
          total_updates |-> IF ~IsEmpty(b) \/ ~IsEmpty(d)
                            THEN ColsTotal(b, BioCounterCols) + ColsTotal(d, DemoCounterCols)
                            ELSE 0,
          total |-> Len(e.rows) + Len(b.rows) + Len(d.rows)]

\* df_q1[df_q1['Enrolment'] > 1000]
Q1MinEnrol == 1000
\* q1_maintenance_gap: bio_agg + demo_agg is missing where either is, and
\* dropna() drops the state
MatrixOfAnalysis(e, b, d) ==
    LET enrol_agg == GroupTotals(e, "state", AgeCols)
        bio_agg   == GroupTotals(b, "state", BioCounterCols)
        demo_agg  == GroupTotals(d, "state", DemoCounterCols)
        kept      == { g \in DOMAIN enrol_agg \cap DOMAIN bio_agg \cap DOMAIN demo_agg :
                         enrol_agg[g] > Q1MinEnrol }
    IN  [g \in kept |-> [Enrolment |-> enrol_agg[g], Updates |-> bio_agg[g] + demo_agg[g]]]
\* the Q1 page: update_agg starts at 0 on the enrolment index, and
\* .add(..., fill_value=0) counts a state absent from a table as 0
MatrixOfPage(e, b, d) ==
    LET enrol_agg == GroupTotals(e, "state", AgeCols)
        bio_agg   == IF ~IsEmpty(b) THEN GroupTotals(b, "state", BioCounterCols) ELSE <<>>
        demo_agg  == IF ~IsEmpty(d) THEN GroupTotals(d, "state", DemoCounterCols) ELSE <<>>
        kept      == { g \in DOMAIN enrol_agg : enrol_agg[g] > Q1MinEnrol }
    IN  [g \in kept |->
            [Enrolment |-> enrol_agg[g],
             Updates |-> FillCell(SeriesCell(bio_agg, g)).n
                         + FillCell(SeriesCell(demo_agg, g)).n]]

\* the digital-divide chart per script: the counts, the threshold, the cut
DivideCounts(sc, df, cols) ==
    IF sc = "dashboard" THEN GroupTotalsNumeric(df, "district")
    ELSE GroupTotals(df, "district", cols)
ManusNoiseFloor == 1000
DivideFloor(sc) == IF sc = "dashboard" THEN NoiseFloor ELSE ManusNoiseFloor
DivideShown(sc) == IF sc = "manus" THEN 15 ELSE 10
\* ratio_df[ratio_df['Bio'] > floor].sort_values('Ratio', ascending=False).head(n)
TopRatio(sc, frame) ==
    TopBy([g \in DOMAIN frame |-> frame[g].Ratio],
          { g \in DOMAIN frame : frame[g].Bio > DivideFloor(sc) }, DivideShown(sc))

\* date.toordinal(): the days from 1 January of year 1, which is day 1
RECURSIVE DaysBeforeMonth(_, _)
DaysBeforeMonth(m, y) == IF m = 1 THEN 0 ELSE DaysBeforeMonth(m - 1, y) + DaysInMonth(m - 1, y)
DayNumber(cell) ==
    LET d == cell.n % 100
        m == (cell.n \div 100) % 100
        y == cell.n \div 10000
    IN  365 * (y - 1) + ((y - 1) \div 4) - ((y - 1) \div 100) + ((y - 1) \div 400)
        + DaysBeforeMonth(m, y) + d
\* resample('W'): the bucket of a date is labelled with the Sunday that ends its week
WeekEnd(cell) == DayNumber(cell) + (6 - Weekday(cell))
Dated(df) == SelectSeq(df.rows, LAMBDA r : r.date.t = "date")
MinOf(S) == CHOOSE x \in S : \A y \in S : x <= y
MaxOf(S) == CHOOSE x \in S : \A y \in S : x >= y
\* df.set_index('date').resample('W')[cols].sum().sum(axis=1): one bucket per
\* week from the first to the last dated row, 0 for a week without rows
Weekly(df, cols) ==
    LET ends  == { WeekEnd(Dated(df)[n].date) : n \in DOMAIN Dated(df) }
        count == ((MaxOf(ends) - MinOf(ends)) \div 7) + 1
    IN  [b \in 1..count |->
            LET week == MinOf(ends) + 7 * (b - 1)
            IN  [week |-> week,
                 load |-> SumSeq([n \in DOMAIN Dated(df) |->
                                    IF WeekEnd(Dated(df)[n].date) = week
                                    THEN RowTotal(Dated(df)[n], cols) ELSE 0])]]
\* weekly.tail(4)
TailOf(q, n) == SubSeq(q, IF Len(q) < n THEN 1 ELSE Len(q) - n + 1, Len(q))
LoadSum(q) == SumSeq([n \in DOMAIN q |-> q[n].load])
ForecastWeeks == 12
\* the exception the forecast raises on a weekly series, or "none":
\* q5_load_forecast reads weekly.iloc[-4], the page does not
ForecastError(sc, weekly) ==
    IF sc = "analysis" /\ Len(weekly) < 4 THEN "IndexError" ELSE "none"
\* future_dates and future_vals, the values exact as fractions
ForecastOf(sc, weekly) ==
    LET last == weekly[Len(weekly)]
        sum4 == LoadSum(TailOf(weekly, 4))
        n4   == Len(TailOf(weekly, 4))
    IN  [x \in 1..ForecastWeeks |->
            [week |-> last.week + 7 * x,
             load |-> IF sc = "analysis"
                      THEN LET b == weekly[Len(weekly) - 3].load
                           IN  Divide(sum4 * (10 * b + (last.load - b) * x), 40 * b)
                      ELSE Divide(sum4 * (80 + x), 80 * n4)]]

---------------------------------------------------------------------------
(* The bounded universe of loaded tables for the statistics *)
Assam == <<"A","s","s","a","m">>
DigitChar == <<"0","1","2","3","4","5","6","7","8","9">>
District(n) == <<"D", DigitChar[(n \div 10) + 1], DigitChar[(n % 10) + 1]>>
\* five Saturdays, one week apart
StatDays == <<Date(1, 3, 2025), Date(8, 3, 2025), Date(15, 3, 2025), Date(22, 3, 2025),
              Date(29, 3, 2025)>>
StatEnrolRow(date, state, n, pin, a0, a5, a18) ==
    [date |-> date, state |-> Str(state), district |-> Str(District(n)), pincode |-> Num(pin),
     age_0_5 |-> Num(a0), age_5_17 |-> Num(a5), age_18_greater |-> Num(a18)]
\* Odisha in two rows, Goa at or above the Q1 threshold, Assam above it
EnrolStat(a5, big) ==
    [cols |-> EnrolCols,
     rows |-> <<StatEnrolRow(StatDays[1], Odisha, 1, 101, 3, a5, 1),
                StatEnrolRow(StatDays[2], Odisha, 1, 101, 1, 0, 2),
                StatEnrolRow(StatDays[1], Goa, 2, 101, 0, 0, big),
                StatEnrolRow(StatDays[1], Assam, 3, 101, 0, 0, 1001)>>]
StatEnrolTables == {EmptyDF} \cup { EnrolStat(a5, big) : a5 \in {0, 2}, big \in {1000, 1001} }

FewDistricts == 3
ManyDistricts == 17
\* one row per district; the first district's count varies around the two
\* thresholds, the others are far above them; the short table has a row of Goa
BioStat(nd, x, pin) ==
    [cols |-> BioCols,
     rows |-> [n \in 1..nd |->
                 [date |-> StatDays[1],
                  state |-> Str(IF nd = FewDistricts /\ n = 2 THEN Goa ELSE Odisha),
                  district |-> Str(District(n)), pincode |-> Num(pin),
                  bio_age_5_17 |-> Num(0),
                  bio_age_17_ |-> Num(IF n = 1 THEN x ELSE 2000)]]]
StatBioTables ==
    {EmptyDF} \cup { BioStat(nd, x, pin) : nd \in {FewDistricts, ManyDistricts},
                                           x \in {0, 100, 101, 1000, 1001}, pin \in {0, 101} }

\* the dates of the rows: one week, three weeks, five weeks, or the first and
\* the fourth week with nothing in between
Spans == {"one", "three", "five", "gap"}
DayOf(span, n) ==
    CASE span = "one"   -> StatDays[1]
      [] span = "three" -> StatDays[((n - 1) % 3) + 1]
      [] span = "five"  -> StatDays[((n - 1) % 5) + 1]
      [] span = "gap"   -> IF n = 1 THEN StatDays[1] ELSE StatDays[4]
\* one row per district; districts 2 and 3, 4 and 5, ... have equal counts;
\* in one week and in the gap a row of Goa
DemoStat(nd, span) ==
    [cols |-> DemoCols,
     rows |-> [n \in 1..nd |->
                 [date |-> DayOf(span, n),
                  state |-> Str(IF span \in {"one", "gap"} /\ n = 2 THEN Goa ELSE Odisha),
                  district |-> Str(District(n)), pincode |-> Num(101),
                  demo_age_5_17 |-> Num(0),
                  demo_age_17_ |-> Num(IF n = 1 THEN 5000 ELSE 10 * (n \div 2))]]]
StatDemoTables ==
    {EmptyDF} \cup { DemoStat(nd, span) : nd \in {FewDistricts, ManyDistricts}, span \in Spans }

BlankStat == [err |-> "none", msg |-> FALSE, share |-> <<>>, top |-> <<>>,
              totals |-> <<>>, kpi |-> <<>>, matrix |-> <<>>, frame |-> <<>>,
              weekly |-> <<>>, forecast |-> <<>>]

StatInit ==
    /\ NormIdle /\ LoadIdle /\ AggIdle /\ PageIdle /\ SoloIdle /\ CacheIdle
    /\ q_script \in StatScripts
    /\ q_enrol \in StatEnrolTables
    /\ q_bio \in StatBioTables
    /\ q_demo \in StatDemoTables
    \* temo.py and verify_regional_trends.py end in pd.concat on an empty list
    /\ q_script \in {"temo", "verify"} => EmptyDF \notin {q_enrol, q_bio, q_demo}
    /\ q_pc = "ready"
    /\ q_out = BlankStat

StatFrame == <<normVars, loadVars, aggVars, pageVars, soloVars, cacheVars,
               q_script, q_enrol, q_bio, q_demo>>

\* Adult_Share per state: Societal Trends tab 1, the Q1 page of the manus
\* variant, engineer_features, verify_regional_trends
AdultShare ==
    /\ q_pc = "ready" /\ q_script \in {"dashboard", "manus", "temo", "verify"}
    /\ q_pc' = "adult"
    /\ q_out' =
         IF q_script = "dashboard" /\ IsEmpty(q_enrol) THEN BlankStat
         ELSE IF q_script = "manus" /\ ~(~IsEmpty(q_enrol) /\ (~IsEmpty(q_bio) \/ ~IsEmpty(q_demo)))
         THEN [BlankStat EXCEPT !.msg = TRUE]
         ELSE IF ~HasCol(q_enrol, "state") THEN [BlankStat EXCEPT !.err = "KeyError"]
         ELSE LET share == AdultShareOf(q_script, q_enrol)
              IN  [BlankStat EXCEPT !.share = share,
                                    !.top = TopBy(share, DOMAIN share, 10)]
    /\ UNCHANGED StatFrame

\* New_Enrolments per (state, district): Border Security, Q3, dist_enrol
BorderVelocity ==
    /\ q_pc = "ready" /\ q_script \in {"dashboard", "manus", "verify"}
    /\ q_pc' = "border"
    /\ q_out' =
         IF q_script # "verify" /\ IsEmpty(q_enrol) THEN [BlankStat EXCEPT !.msg = TRUE]
         ELSE IF ~HasCol(q_enrol, "state") THEN [BlankStat EXCEPT !.err = "KeyError"]
         ELSE LET dist_agg == BorderTotals(q_script, q_enrol)
              IN  [BlankStat EXCEPT !.totals = dist_agg,
                                    !.top = TopBy(Whole(dist_agg), DOMAIN dist_agg, BorderShown)]
    /\ UNCHANGED StatFrame

\* the KPI row of the Executive Summary
ExecutiveSummary ==
    /\ q_pc = "ready" /\ q_script \in {"dashboard", "manus"}
    /\ q_pc' = "summary"
    /\ q_out' = LET kpi == ExecSummary(q_script, q_enrol, q_bio, q_demo)
                IN  IF kpi.err # "none" THEN [BlankStat EXCEPT !.err = kpi.err]
                    ELSE [BlankStat EXCEPT !.kpi = kpi]
    /\ UNCHANGED StatFrame

\* the Q1 maintenance matrix: q1_maintenance_gap and the Q1 pages
MaintenanceMatrix ==
    /\ q_pc = "ready" /\ q_script \in {"analysis", "manus", "jan18"}
    /\ q_script = "analysis" => ~IsEmpty(q_enrol)
    /\ q_pc' = "q1"
    /\ q_out' =
         IF q_script = "analysis"
         THEN IF HasCol(q_bio, "state") /\ HasCol(q_demo, "state")
              THEN [BlankStat EXCEPT !.matrix = MatrixOfAnalysis(q_enrol, q_bio, q_demo)]
              ELSE [BlankStat EXCEPT !.err = "KeyError"]
         ELSE IF ~IsEmpty(q_enrol) /\ (~IsEmpty(q_bio) \/ ~IsEmpty(q_demo))
              THEN [BlankStat EXCEPT !.matrix = MatrixOfPage(q_enrol, q_bio, q_demo)]
              ELSE [BlankStat EXCEPT !.msg = TRUE]
    /\ UNCHANGED StatFrame

\* the digital-divide chart: Societal Trends tab 2, Q2 of the manus variant,
\* ratio_df of verify_regional_trends
DigitalDivide ==
    /\ q_pc = "ready" /\ q_script \in {"dashboard", "manus", "verify"}
    /\ q_pc' = "divide"
    /\ q_out' =
         IF q_script # "verify" /\ ~(~IsEmpty(q_bio) /\ ~IsEmpty(q_demo))
         THEN [BlankStat EXCEPT !.msg = TRUE]
         ELSE IF ~HasCol(q_bio, "district") \/ ~HasCol(q_demo, "district")
         THEN [BlankStat EXCEPT !.err = "KeyError"]
         ELSE LET frame == RatioFrame(DivideCounts(q_script, q_demo, DemoCounterCols),
                                      DivideCounts(q_script, q_bio, BioCounterCols))
              IN  [BlankStat EXCEPT !.frame = frame, !.top = TopRatio(q_script, frame)]
    /\ UNCHANGED StatFrame

\* the Q5 load forecast: q5_load_forecast and the Q5 page of the 18_Jan variant
LoadForecast ==
    /\ q_pc = "ready" /\ q_script \in {"analysis", "jan18"}
    /\ q_script = "analysis" => ~IsEmpty(q_enrol)
    /\ q_pc' = "q5"
    /\ q_out' =
         IF q_script = "jan18" /\ IsEmpty(q_demo) THEN BlankStat
         ELSE IF ~HasCol(q_demo, "date") THEN [BlankStat EXCEPT !.err = "KeyError"]
         ELSE LET weekly == Weekly(q_demo, IF q_script = "analysis" THEN {"demo_age_17_"}
                                           ELSE NumCols(q_demo))
              IN  IF ForecastError(q_script, weekly) # "none"
                  THEN [BlankStat EXCEPT !.err = ForecastError(q_script, weekly)]
                  ELSE [BlankStat EXCEPT !.weekly = weekly,
                                         !.forecast = ForecastOf(q_script, weekly)]
    /\ UNCHANGED StatFrame

StatNext == AdultShare \/ BorderVelocity \/ ExecutiveSummary \/ MaintenanceMatrix
            \/ DigitalDivide \/ LoadForecast

SpecStat == StatInit /\ [][StatNext]_vars

---------------------------------------------------------------------------
(* Properties of the statistics (checked under SpecStat) *)

\* the fraction r has the value num / den; both are missing when den = 0
IsFraction(r, num, den) ==
    /\ (r.den = 0) <=> (den = 0)
    /\ r.num * den = num * r.den
StatesOf(df) == { df.rows[n].state : n \in DOMAIN df.rows }

\* C21: the Adult_Share of a state is 100 * age_18_greater divided by the sum
\* of the three age counters over the state's rows, in every script that
\* computes it, so the dashboards show the same value as engineer_features and
\* verify_regional_trends for the same rows.
C21_AdultShareOfAll ==
    (q_pc = "adult" /\ q_out.err = "none" /\ ~q_out.msg /\ ~IsEmpty(q_enrol)) =>
        /\ DOMAIN q_out.share = StatesOf(q_enrol)
        /\ \A g \in DOMAIN q_out.share :
              /\ IsFraction(q_out.share[g],
                            100 * CountIn(q_enrol, "state", g, {"age_18_greater"}),
                            CountIn(q_enrol, "state", g, AgeCols))
              /\ IsFraction(q_out.share[g], AdultShareOf("temo", q_enrol)[g].num,
                            AdultShareOf("temo", q_enrol)[g].den)

\* the sum of the listed columns over the rows of one (state, district) group
PairCount(df, key, cols) ==
    SumSeq([n \in DOMAIN df.rows |->
              IF <<df.rows[n].state, df.rows[n].district>> = key
              THEN RowTotal(df.rows[n], cols) ELSE 0])

\* C22: New_Enrolments of a (state, district) group is the sum of the three
\* age counters over the group's rows, the value the manus variant computes,
\* and no other column of the row (the pincode) enters it; the New Enrolments
\* KPI of the Executive Summary is the sum of the three age counters too.
C22_OnlyAgeCounters ==
    /\ (q_pc = "border" /\ q_out.err = "none" /\ ~q_out.msg) =>
          /\ DOMAIN q_out.totals = PairKeys(q_enrol)
          /\ \A key \in DOMAIN q_out.totals :
                /\ q_out.totals[key] = PairCount(q_enrol, key, AgeCols)
                /\ q_out.totals[key] = BorderTotals("manus", q_enrol)[key]
    /\ (q_pc = "summary" /\ q_out.err = "none") =>
          q_out.kpi.total_enrol = ColsTotal(q_enrol, AgeCols)

\* the figure one category contributes to the KPI row: the sum of its numeric
\* columns, 0 for an empty table
CategoryTotal(df) == IF IsEmpty(df) THEN 0 ELSE NumericTotal(df)

\* C23: in the Executive Summary of aadhaar_dashboard.py, whichever of the
\* three tables are empty, Total Transactions is the enrolment total plus the
\* biometric total plus the demographic total: an empty category counts 0, a
\* non-empty one always counts in full.
C23_TotalOfThree ==
    (q_pc = "summary" /\ q_script = "dashboard") =>
        /\ q_out.err = "none"
        /\ q_out.kpi.total
             = CategoryTotal(q_enrol) + CategoryTotal(q_bio) + CategoryTotal(q_demo)

\* C24: whenever the Q1 maintenance matrix is made, every state whose
\* enrolment total exceeds 1000 is in it, with Updates the sum of its
\* biometric and demographic counters, a category without rows of the state
\* counting 0: a state with no update record at all appears with Updates = 0.
C24_HighEnrolmentKept ==
    (q_pc = "q1" /\ q_out.err = "none" /\ ~q_out.msg) =>
        \A g \in StatesOf(q_enrol) :
            CountIn(q_enrol, "state", g, AgeCols) > Q1MinEnrol =>
                /\ g \in DOMAIN q_out.matrix
                /\ q_out.matrix[g].Updates
                     = CountIn(q_bio, "state", g, BioCounterCols)
                       + CountIn(q_demo, "state", g, DemoCounterCols)

\* C25: for a non-empty demographic table the Q5 forecast raises nothing and
\* has exactly 12 points, the k-th dated k weeks after the last observed weekly
\* bucket, so the forecast dates increase strictly and lie after every
\* observed week, also when fewer than four weekly buckets exist.
C25_TwelveWeeksAhead ==
    (q_pc = "q5" /\ ~IsEmpty(q_demo)) =>
        LET last == MaxOf({ WeekEnd(q_demo.rows[n].date) : n \in DOMAIN q_demo.rows })
        IN  /\ q_out.err = "none"
            /\ DOMAIN q_out.forecast = 1..12
            /\ \A x \in DOMAIN q_out.forecast : q_out.forecast[x].week = last + 7 * x
            /\ \A x, y \in DOMAIN q_out.forecast :
                  x < y => q_out.forecast[x].week < q_out.forecast[y].week
            /\ \A x \in DOMAIN q_out.forecast, b \in DOMAIN q_out.weekly :
                  q_out.weekly[b].week < q_out.forecast[x].week

\* the sum of the listed columns over the rows of one district
DistrictCount(df, g, cols) ==
    SumSeq([n \in DOMAIN df.rows |->
              IF df.rows[n].district = g THEN RowTotal(df.rows[n], cols) ELSE 0])
DistrictsOf(df) == { df.rows[n].district : n \in DOMAIN df.rows }
\* the digital ratio of a district: demographic updates / (biometric updates + 1)
DistrictRatio(g) ==
    Divide(DistrictCount(q_demo, g, DemoCounterCols),
           DistrictCount(q_bio, g, BioCounterCols) + 1)

\* C26: in the digital-divide chart every displayed district has a biometric
\* update count strictly above the script's noise threshold, at most N
\* districts are displayed, their ratios are in non-increasing order, no
\* district that passes the threshold and is left out has a ratio strictly
\* larger than a displayed one, and a district with no biometric update is
\* never displayed.
C26_DisplayedAboveNoise ==
    (q_pc = "divide" /\ q_out.err = "none" /\ ~q_out.msg) =>
        LET top   == q_out.top
            shown == { top[x] : x \in DOMAIN top }
            bio(g) == DistrictCount(q_bio, g, BioCounterCols)
        IN  /\ \A x \in DOMAIN top : bio(top[x]) > DivideFloor(q_script)
            /\ Len(top) <= DivideShown(q_script)
            /\ \A x, y \in DOMAIN top :
                  x < y => ~Greater(DistrictRatio(top[y]), DistrictRatio(top[x]))
            /\ \A g \in (DistrictsOf(q_bio) \cup DistrictsOf(q_demo)) \ shown :
                  bio(g) > DivideFloor(q_script) =>
                      \A x \in DOMAIN top : ~Greater(DistrictRatio(g), DistrictRatio(top[x]))
            /\ \A x \in DOMAIN top : bio(top[x]) # 0

====
